---- MODULE Spec2Model ----
(***************************************************************************)
(* Collection scheduler of the AI news monitor:                            *)
(*   CollectionCommander.execute / _collect_with_concurrency               *)
(*   (src/src/collectors/commander.py) together with the per-source loops  *)
(*   HttpCollector.collect and BrowserCollector.collect.                   *)
(* asyncio is cooperative: a coroutine runs without interruption from one  *)
(* await to the next, so every action below is one such stretch of code.   *)
(***************************************************************************)
EXTENDS Integers, Sequences, FiniteSets, TLC

(* ---------------------------------------------------------------- bounds *)
\* most items one fetched page can yield
MaxItems == 1
\* the run-level deadline of spec section 5, in time units of the clock
RunTimeout == 2

(* ------------------------------------------------------------- constants *)
\* settings.py reads both caps from the environment; the model runs with a
\* configuration small enough for both caps to bind
MAX_CONCURRENCY == 2
MAX_PER_DOMAIN == 1

(* ------------------------------------------------------- source registry *)
\* A URL is <<netloc, path>>; a Source has urls, collector_type, priority.
SOURCES ==
  << [name |-> 1, urls |-> << <<"b.com", "/news">> >>,
      collector_type |-> "http", priority |-> 3],
     [name |-> 2, urls |-> << <<"a.com", "/blog">>, <<"b.com", "/ai">> >>,
      collector_type |-> "http", priority |-> 5],
     [name |-> 3, urls |-> << <<"b.com", "/research">> >>,
      collector_type |-> "http", priority |-> 5],
     [name |-> 4, urls |-> << <<"a.com", "/press">> >>,
      collector_type |-> "browser", priority |-> 4] >>

Names == {SOURCES[k].name : k \in 1..Len(SOURCES)}
Source(n) == CHOOSE s \in {SOURCES[k] : k \in 1..Len(SOURCES)} : s.name = n
Domains == {"a.com", "b.com"}

\* urlparse(url).netloc
_get_domain(url) == url[1]

\* the domain a source-task takes its per-domain permit for
TaskDomain(n) == _get_domain(Source(n).urls[1])

get_all_sources(test_mode) ==
  IF test_mode THEN SubSeq(SOURCES, 1, 3) ELSE SOURCES

RECURSIVE SelectSeq2(_, _)
\* [s.name for s in seq if s.collector_type == ty]
SelectSeq2(seq, ty) ==
  IF seq = << >> THEN << >>
  ELSE IF Head(seq).collector_type = ty
       THEN << Head(seq).name >> \o SelectSeq2(Tail(seq), ty)
       ELSE SelectSeq2(Tail(seq), ty)

RECURSIVE InsertByPriority(_, _)
\* insert n behind every element of higher or equal priority
InsertByPriority(sorted, n) ==
  IF sorted = << >> THEN << n >>
  ELSE IF Source(Head(sorted)).priority >= Source(n).priority
       THEN << Head(sorted) >> \o InsertByPriority(Tail(sorted), n)
       ELSE << n >> \o sorted

RECURSIVE SortByPriority(_, _)
SortByPriority(acc, seq) ==
  IF seq = << >> THEN acc
  ELSE SortByPriority(InsertByPriority(acc, Head(seq)), Tail(seq))

\* sorted(sources, key=lambda s: s.priority, reverse=True): stable
sorted_by_priority(seq) == SortByPriority(<< >>, seq)

SeqToSet(seq) == {seq[k] : k \in 1..Len(seq)}

(* ------------------------------------------------------------- semaphore *)
\* asyncio.Semaphore: a counter, a FIFO of waiters, and the waiters whose
\* future has already been resolved by a release (woken, not yet resumed)
NewSemaphore(v) == [value |-> v, waiters |-> << >>, woken |-> {}]

\* variant: acquire looks at the queue only, not at the counter
SemFree_IgnoresValue(sem) == sem.waiters = << >>

\* not locked(): a permit is free and nobody queues
SemFree(sem) == sem.value > 0 /\ sem.waiters = << >>

SemAcquire(sem, t) ==
  IF SemFree(sem) THEN [sem EXCEPT !.value = @ - 1]
  ELSE [sem EXCEPT !.waiters = Append(@, t)]

_wake_up_next(sem) ==
  LET idx == {k \in 1..Len(sem.waiters) : sem.waiters[k] \notin sem.woken}
  IN IF idx = {} THEN sem
     ELSE LET k == CHOOSE m \in idx : \A o \in idx : m <= o
          IN [sem EXCEPT !.value = @ - 1,
                         !.woken = @ \cup {sem.waiters[k]}]

SemRelease(sem) == _wake_up_next([sem EXCEPT !.value = @ + 1])

RECURSIVE Remove(_, _)
Remove(seq, t) ==
  IF seq = << >> THEN << >>
  ELSE IF Head(seq) = t THEN Tail(seq)
       ELSE << Head(seq) >> \o Remove(Tail(seq), t)

\* a woken waiter resumes inside acquire()
SemResume(sem, t) ==
  LET s1 == [sem EXCEPT !.waiters = Remove(@, t), !.woken = @ \ {t}]
  IN IF s1.value > 0 THEN _wake_up_next(s1) ELSE s1

\* CancelledError delivered to a waiter inside acquire()
SemCancelWait(sem, t) ==
  LET s1 == [sem EXCEPT !.waiters = Remove(@, t), !.woken = @ \ {t}]
  IN IF t \in sem.woken
     THEN _wake_up_next([s1 EXCEPT !.value = @ + 1])
     ELSE s1

(* ----------------------------------------------------------------- state *)
VARIABLES
  test_mode,            \* execute's argument
  pc,                   \* position of execute
  pass,                 \* 1 = HTTP, 2 = Browser, 3 = Fallback-Browser
  stats,                \* CollectionCommander.stats
  all_articles,         \* execute's all_articles
  failed_http_sources,  \* execute's failed_http_sources
  sorted_sources,       \* the pass's sorted_sources
  global_sem,           \* the pass's global semaphore
  domain_sems,          \* the pass's per-domain semaphores
  results,              \* the pass's results list
  failed_sources,       \* the pass's failed_sources list
  task,                 \* one _collect_source coroutine per source
  log,                  \* the per-source log lines of _collect_source
  elapsed               \* time.time() - start_time, saturating at RunTimeout

\* state of the curation stage (src/src/curators); the collection scheduler
\* never touches it
VARIABLES
  dd_pc,                \* position of the deduplication run
  articles,             \* Deduplicator.deduplicate's argument
  unique_articles,      \* Deduplicator.deduplicate's result
  rerun_articles        \* the result of deduplicating unique_articles

dedup_vars == << dd_pc, articles, unique_articles, rerun_articles >>

\* state of one call of a curator (RelevanceFilter, ArticleClassifier,
\* ImportanceScorer) and of the LLMClient method it calls
VARIABLES
  or_pc,                \* which curator was called, "ready" before the call
  llm_available,        \* LLMClient.is_available
  batch,                \* the curator's argument
  response,             \* what LLMClient.chat returned, a list of lines
  result_dicts,         \* what the LLMClient method returned
  curator_results       \* what the curator returned

oracle_vars ==
  << or_pc, llm_available, batch, response, result_dicts, curator_results >>

VARIABLES
  cu_pc,                \* position of CurationCommander.execute
  report_date,          \* execute's argument, then its local
  raw_articles,         \* execute's argument
  raw_articles_table,   \* the rows of the table raw_articles
  deduped,              \* execute's local
  fresh,                \* execute's local
  filtered,             \* execute's local
  classified,           \* execute's local
  scored,               \* execute's local
  curated_articles,     \* execute's local
  curated_articles_table, \* the rows of the table curated_articles
  selected_articles,    \* what execute returns
  dateutil_available    \* the build has the package dateutil

curate_vars ==
  << cu_pc, report_date, raw_articles, raw_articles_table, deduped, fresh,
     filtered, classified, scored, curated_articles, curated_articles_table,
     selected_articles, dateutil_available >>

VARIABLES
  rd_pc,                \* position of run_daily
  collection_stats,     \* run_daily's local
  daily_files           \* the files of DOCS_DIR / "daily"

daily_vars == << rd_pc, collection_stats, daily_files >>

VARIABLES
  fc_pc,                  \* position of one collector's collect(source)
  collector_kind,         \* "http": HttpCollector, "browser": BrowserCollector
  source_urls,            \* source.urls, as declared
  url_index,              \* position of `for url in source.urls`
  attempt,                \* `attempt` of the fetch's retry loop
  page,                   \* what the fetch returned as html
  screenshot,             \* whether the fetch returned a screenshot
  source_articles,        \* collect's all_articles
  trace,                  \* what collect and its fetches did, in order
  pytesseract_available   \* whether `import pytesseract` succeeds

fetch_vars ==
  << fc_pc, collector_kind, source_urls, url_index, attempt, page,
     screenshot, source_articles, trace, pytesseract_available >>

curation_vars ==
  << dedup_vars, oracle_vars, curate_vars, daily_vars, fetch_vars >>

DedupIdle ==
  /\ dd_pc = "idle"
  /\ articles = << >>
  /\ unique_articles = << >>
  /\ rerun_articles = << >>

OracleIdle ==
  /\ or_pc = "idle"
  /\ llm_available = FALSE
  /\ batch = << >>
  /\ response = << >>
  /\ result_dicts = << >>
  /\ curator_results = << >>

CurateIdle ==
  /\ cu_pc = "idle"
  /\ report_date = << >>
  /\ raw_articles = << >>
  /\ raw_articles_table = << >>
  /\ deduped = << >>
  /\ fresh = << >>
  /\ filtered = << >>
  /\ classified = << >>
  /\ scored = << >>
  /\ curated_articles = << >>
  /\ curated_articles_table = << >>
  /\ selected_articles = << >>
  /\ dateutil_available = FALSE

DailyIdle ==
  /\ rd_pc = "idle"
  /\ collection_stats = << >>
  /\ daily_files = {}

\* html: len is len(html), text_content is the length of the text left when
\* the tags are taken out and the ends are stripped, matched is the set of
\* block indicators html.lower() contains; none: None in place of a page
Html(len, text_content, matched) ==
  [none |-> FALSE, len |-> len, text_content |-> text_content,
   matched |-> matched]

NoHtml == [none |-> TRUE, len |-> 0, text_content |-> 0, matched |-> {}]

FetchIdle ==
  /\ fc_pc = "idle"
  /\ collector_kind = "http"
  /\ source_urls = << >>
  /\ url_index = 0
  /\ attempt = 0
  /\ page = NoHtml
  /\ screenshot = FALSE
  /\ source_articles = << >>
  /\ trace = << >>
  /\ pytesseract_available = FALSE

CurationIdle ==
  DedupIdle /\ OracleIdle /\ CurateIdle /\ DailyIdle /\ FetchIdle

vars == << curation_vars, test_mode, pc, pass, stats, all_articles, failed_http_sources,
           sorted_sources, global_sem, domain_sems, results, failed_sources,
           task, log, elapsed >>

CollectorName(p) ==
  IF p = 1 THEN "HTTP" ELSE IF p = 2 THEN "Browser" ELSE "Fallback-Browser"

\* the collector object handed to _collect_with_concurrency
Collector(p) == IF p = 1 THEN "http" ELSE "browser"

\* st: position of the coroutine; i: index of the URL collect is at;
\* articles: collect's all_articles, then the list it returned;
\* skipped: the URLs collect has logged as failed
NoTask == [st |-> "none", i |-> 0, articles |-> << >>, skipped |-> {}]

Finished == {"done", "raised", "cancelled"}
InCollect == {"fetch", "sleep"}

\* the sources the pass p is called with
PassSources(p) ==
  IF p = 1 THEN SelectSeq2(get_all_sources(test_mode), "http")
  ELSE IF p = 2 THEN SelectSeq2(get_all_sources(test_mode), "browser")
  ELSE failed_http_sources

Init ==
  /\ CurationIdle
  /\ test_mode \in BOOLEAN
  /\ pc = "start"
  /\ pass = 1
  /\ stats = [total_sources |-> 0, success_sources |-> 0,
              failed_sources |-> 0, fallback_sources |-> 0,
              total_articles |-> 0, total_urls |-> 0]
  /\ all_articles = << >>
  /\ failed_http_sources = << >>
  /\ sorted_sources = << >>
  /\ global_sem = NewSemaphore(MAX_CONCURRENCY)
  /\ domain_sems = [d \in Domains |-> NewSemaphore(MAX_PER_DOMAIN)]
  /\ results = << >>
  /\ failed_sources = << >>
  /\ task = [n \in Names |-> NoTask]
  /\ log = {}
  /\ elapsed = 0


(* ------------------------------------------------------------- execute *)
\* execute, lines 52-81: read the registry, set the totals
RECURSIVE SumUrls(_)
SumUrls(seq) ==
  IF seq = << >> THEN 0 ELSE Len(Head(seq).urls) + SumUrls(Tail(seq))

Start ==
  /\ pc = "start"
  /\ stats' = [stats EXCEPT
                 !.total_sources = Len(get_all_sources(test_mode)),
                 !.total_urls = SumUrls(get_all_sources(test_mode))]
  /\ pc' = "check"
  /\ UNCHANGED << curation_vars, test_mode, pass, all_articles, failed_http_sources,
                  sorted_sources, global_sem, domain_sems, results,
                  failed_sources, task, log, elapsed >>

\* `if http_sources:` / `if browser_sources:` / `if failed_http_sources:`
\* true: _collect_with_concurrency is called and builds its locals
EnterPass ==
  /\ pc = "check"
  /\ PassSources(pass) # << >>
  /\ stats' = IF pass = 3
              THEN [stats EXCEPT !.fallback_sources = Len(failed_http_sources)]
              ELSE stats
  /\ global_sem' = NewSemaphore(MAX_CONCURRENCY)
  /\ domain_sems' = [d \in Domains |-> NewSemaphore(MAX_PER_DOMAIN)]
  /\ results' = << >>
  /\ failed_sources' = << >>
  /\ sorted_sources' = sorted_by_priority(PassSources(pass))
  /\ task' = [n \in Names |->
                IF n \in SeqToSet(PassSources(pass))
                THEN [NoTask EXCEPT !.st = "new"] ELSE NoTask]
  /\ pc' = "launch"
  /\ UNCHANGED << curation_vars, test_mode, pass, all_articles, failed_http_sources, log,
                  elapsed >>

\* where execute goes after the pass p
AfterPass(p) == IF p < 3 THEN "check" ELSE "close"

\* the same conditions, false: the pass is skipped
SkipPass ==
  /\ pc = "check"
  /\ PassSources(pass) = << >>
  /\ pc' = AfterPass(pass)
  /\ pass' = IF pass < 3 THEN pass + 1 ELSE pass
  /\ UNCHANGED << curation_vars, test_mode, stats, all_articles, failed_http_sources,
                  sorted_sources, global_sem, domain_sems, results,
                  failed_sources, task, log, elapsed >>

(* ------------------------------------------------------ _collect_source *)
\* `async with domain_sem:` entered by a task that holds the global permit;
\* with the permit the task enters collect and awaits its first fetch
TryDomain(n) ==
  LET d == TaskDomain(n) IN
  /\ domain_sems' = [domain_sems EXCEPT ![d] = SemAcquire(@, n)]
  /\ task' = [task EXCEPT ![n] =
                IF SemFree(domain_sems[d])
                THEN [NoTask EXCEPT !.st = "fetch", !.i = 1]
                ELSE [NoTask EXCEPT !.st = "wait_domain"]]

\* the first not yet started coroutine, in the order gather was given
NextNew ==
  LET idx == {k \in 1..Len(sorted_sources) :
                task[sorted_sources[k]].st = "new"}
  IN sorted_sources[CHOOSE m \in idx : \A o \in idx : m <= o]

\* a coroutine's first step: `async with global_sem:` and, with the permit,
\* `async with domain_sem:`
StartTask(n) ==
  /\ pc = "launch"
  /\ task[n].st = "new"
  /\ n = NextNew
  /\ global_sem' = SemAcquire(global_sem, n)
  /\ IF SemFree(global_sem)
     THEN TryDomain(n)
     ELSE /\ task' = [task EXCEPT ![n].st = "wait_global"]
          /\ UNCHANGED domain_sems
  /\ pc' = IF \A m \in Names \ {n} : task[m].st # "new"
           THEN "gather" ELSE "launch"
  /\ UNCHANGED << curation_vars, test_mode, pass, stats, all_articles, failed_http_sources,
                  sorted_sources, results, failed_sources, log, elapsed >>

\* a waiter of the global semaphore that a release has woken resumes
ResumeGlobal(n) ==
  /\ pc = "gather"
  /\ task[n].st = "wait_global"
  /\ n \in global_sem.woken
  /\ global_sem' = SemResume(global_sem, n)
  /\ TryDomain(n)
  /\ UNCHANGED << curation_vars, test_mode, pc, pass, stats, all_articles,
                  failed_http_sources, sorted_sources, results,
                  failed_sources, log, elapsed >>

\* a woken waiter of its domain semaphore resumes and enters collect
ResumeDomain(n) ==
  LET d == TaskDomain(n) IN
  /\ pc = "gather"
  /\ task[n].st = "wait_domain"
  /\ n \in domain_sems[d].woken
  /\ domain_sems' = [domain_sems EXCEPT ![d] = SemResume(@, n)]
  /\ task' = [task EXCEPT ![n] =
                [NoTask EXCEPT !.st = "fetch", !.i = 1]]
  /\ UNCHANGED << curation_vars, test_mode, pc, pass, stats, all_articles,
                  failed_http_sources, sorted_sources, global_sem, results,
                  failed_sources, log, elapsed >>

\* variant: the domain permit is kept when the task ends
ReleaseBoth_KeepsDomain(n) ==
  /\ domain_sems' = domain_sems
  /\ global_sem' = SemRelease(global_sem)

\* leaving `async with domain_sem:` and `async with global_sem:`
ReleaseBoth(n) ==
  /\ domain_sems' = [domain_sems EXCEPT ![TaskDomain(n)] = SemRelease(@)]
  /\ global_sem' = SemRelease(global_sem)

\* the line _collect_source logs for a source: "[name] ok source: count"
LogLine(n, count, ok) ==
  [name |-> CollectorName(pass), source |-> n, count |-> count, ok |-> ok]

\* variant: a source without items is counted but not queued for fallback
CollectReturns_NotQueued(n, arts, skip) ==
  /\ results' = results \o arts
  /\ stats' = IF arts # << >>
              THEN [stats EXCEPT !.success_sources = @ + 1]
              ELSE [stats EXCEPT !.failed_sources = @ + 1]
  /\ failed_sources' = failed_sources
  /\ log' = log \cup {LogLine(n, Len(arts), TRUE)}
  /\ ReleaseBoth(n)
  /\ task' = [task EXCEPT ![n] =
                [st |-> "done", i |-> 0, articles |-> arts, skipped |-> skip]]

\* collect returned arts: lines 164-174, then both permits are released
CollectReturns(n, arts, skip) ==
  /\ results' = results \o arts
  /\ stats' = IF arts # << >>
              THEN [stats EXCEPT !.success_sources = @ + 1]
              ELSE [stats EXCEPT !.failed_sources = @ + 1]
  /\ failed_sources' = IF arts # << >> THEN failed_sources
                       ELSE Append(failed_sources, n)
  /\ log' = log \cup {LogLine(n, Len(arts), TRUE)}
  /\ ReleaseBoth(n)
  /\ task' = [task EXCEPT ![n] =
                [st |-> "done", i |-> 0, articles |-> arts, skipped |-> skip]]

\* the `for url in source.urls` loop moves on: the next URL is fetched, or
\* the loop is over and collect returns; skip are the URLs logged as failed
NextUrl(n, arts, skip) ==
  IF task[n].i < Len(Source(n).urls)
  THEN /\ task' = [task EXCEPT ![n] =
                     [st |-> "fetch", i |-> task[n].i + 1,
                      articles |-> arts, skipped |-> skip]]
       /\ UNCHANGED << results, stats, failed_sources, log, global_sem,
                       domain_sems >>
  ELSE CollectReturns(n, arts, skip)

Tick == IF elapsed < RunTimeout THEN elapsed + 1 ELSE elapsed

\* RawArticle objects built from the k entries extracted from URL i of n
Extracted(n, i, k) ==
  [e \in 1..k |-> [source_name |-> n, url |-> Source(n).urls[i], entry |-> e]]

\* variant: a fetch that gives up raises out of collect
FetchGiveUp_Raises(n) ==
  /\ pc = "gather"
  /\ task[n].st = "fetch"
  /\ stats' = [stats EXCEPT !.failed_sources = @ + 1]
  /\ failed_sources' = Append(failed_sources, n)
  /\ log' = log \cup {LogLine(n, 0, FALSE)}
  /\ ReleaseBoth(n)
  /\ task' = [task EXCEPT ![n] = [NoTask EXCEPT !.st = "raised"]]
  /\ UNCHANGED << curation_vars, test_mode, pc, pass, all_articles, failed_http_sources,
                  sorted_sources, results, elapsed >>

\* the awaited fetch gives up on the URL, its retries included: _fetch_url
\* returns None, _fetch_page returns (None, None).  HttpCollector.collect
\* continues with the next URL at once, BrowserCollector.collect finds
\* nothing to extract and sleeps first.
FetchGiveUp(n) ==
  /\ pc = "gather"
  /\ task[n].st = "fetch"
  /\ IF Collector(pass) = "http"
     THEN NextUrl(n, task[n].articles, task[n].skipped \cup {task[n].i})
     ELSE /\ task' = [task EXCEPT ![n].st = "sleep",
                                  ![n].skipped = @ \cup {task[n].i}]
          /\ UNCHANGED << results, stats, failed_sources, log, global_sem,
                          domain_sems >>
  /\ UNCHANGED << curation_vars, test_mode, pc, pass, all_articles, failed_http_sources,
                  sorted_sources, elapsed >>

\* the page is fetched and k entries with a title are extracted from it;
\* the politeness sleep follows
FetchOk(n, k) ==
  /\ pc = "gather"
  /\ task[n].st = "fetch"
  /\ task' = [task EXCEPT ![n].st = "sleep",
                          ![n].articles = @ \o Extracted(n, task[n].i, k)]
  /\ UNCHANGED << curation_vars, test_mode, pc, pass, stats, all_articles,
                  failed_http_sources, sorted_sources, global_sem,
                  domain_sems, results, failed_sources, log, elapsed >>

\* extraction raises inside the per-URL try: logged, next URL, no sleep
ExtractRaise(n) ==
  /\ pc = "gather"
  /\ task[n].st = "fetch"
  /\ NextUrl(n, task[n].articles, task[n].skipped \cup {task[n].i})
  /\ UNCHANGED << curation_vars, test_mode, pc, pass, all_articles, failed_http_sources,
                  sorted_sources, elapsed >>

\* the politeness sleep of collect is over
SleepDone(n) ==
  /\ pc = "gather"
  /\ task[n].st = "sleep"
  /\ NextUrl(n, task[n].articles, task[n].skipped)
  /\ elapsed' = Tick
  /\ UNCHANGED << curation_vars, test_mode, pc, pass, all_articles, failed_http_sources,
                  sorted_sources >>

\* variant: permits taken by hand, the raise path forgets to release them
CollectRaise_KeepsPermits(n) ==
  /\ pc = "gather"
  /\ task[n].st \in InCollect
  /\ stats' = [stats EXCEPT !.failed_sources = @ + 1]
  /\ failed_sources' = Append(failed_sources, n)
  /\ log' = log \cup {LogLine(n, 0, FALSE)}
  /\ task' = [task EXCEPT ![n] = [NoTask EXCEPT !.st = "raised"]]
  /\ UNCHANGED << curation_vars, test_mode, pc, pass, all_articles, failed_http_sources,
                  sorted_sources, results, elapsed, global_sem, domain_sems >>

\* variant: the exception is recorded and then aborts the pass, the tasks
\* still running are cancelled
CollectRaise_AbortsSiblings(n) ==
  /\ pc = "gather"
  /\ task[n].st \in InCollect
  /\ stats' = [stats EXCEPT !.failed_sources = @ + 1]
  /\ failed_sources' = Append(failed_sources, n)
  /\ log' = log \cup {LogLine(n, 0, FALSE)}
  /\ global_sem' = NewSemaphore(MAX_CONCURRENCY)
  /\ domain_sems' = [d \in Domains |-> NewSemaphore(MAX_PER_DOMAIN)]
  /\ task' = [m \in Names |->
                IF m = n THEN [NoTask EXCEPT !.st = "raised"]
                ELSE IF task[m].st \in Finished \cup {"none"} THEN task[m]
                ELSE [NoTask EXCEPT !.st = "cancelled"]]
  /\ UNCHANGED << curation_vars, test_mode, pc, pass, all_articles, failed_http_sources,
                  sorted_sources, results, elapsed >>

\* variant: the exception is logged but the source is not counted as failed
CollectRaise_NotCounted(n) ==
  /\ pc = "gather"
  /\ task[n].st \in InCollect
  /\ stats' = stats
  /\ failed_sources' = Append(failed_sources, n)
  /\ log' = log \cup {LogLine(n, 0, FALSE)}
  /\ ReleaseBoth(n)
  /\ task' = [task EXCEPT ![n] = [NoTask EXCEPT !.st = "raised"]]
  /\ UNCHANGED << curation_vars, test_mode, pc, pass, all_articles, failed_http_sources,
                  sorted_sources, results, elapsed >>

\* an exception leaves collect: the except branch of _collect_source,
\* lines 175-182, then both permits are released
CollectRaise(n) ==
  /\ pc = "gather"
  /\ task[n].st \in InCollect
  /\ stats' = [stats EXCEPT !.failed_sources = @ + 1]
  /\ failed_sources' = Append(failed_sources, n)
  /\ log' = log \cup {LogLine(n, 0, FALSE)}
  /\ ReleaseBoth(n)
  /\ task' = [task EXCEPT ![n] = [NoTask EXCEPT !.st = "raised"]]
  /\ UNCHANGED << curation_vars, test_mode, pc, pass, all_articles, failed_http_sources,
                  sorted_sources, results, elapsed >>

(* ---------------------------------------------------------------- gather *)
PassTasks == {n \in Names : task[n].st # "none"}

\* variant: gather returns with the first result
AnyFinished == \E n \in PassTasks : task[n].st \in Finished

\* gather has every result
AllFinished == \A n \in PassTasks : task[n].st \in Finished

\* `await asyncio.gather(...)` returns, _collect_with_concurrency returns
\* (results, failed_sources) and execute extends all_articles
GatherReturn ==
  /\ pc = "gather"
  /\ AllFinished
  /\ all_articles' = all_articles \o results
  /\ failed_http_sources' = IF pass = 1 THEN failed_sources
                            ELSE failed_http_sources
  /\ pc' = AfterPass(pass)
  /\ pass' = IF pass < 3 THEN pass + 1 ELSE pass
  /\ UNCHANGED << curation_vars, test_mode, stats, sorted_sources, global_sem, domain_sems,
                  results, failed_sources, task, log, elapsed >>

\* execute, lines 110-131: close the collectors, final statistics, return
Close ==
  /\ pc = "close"
  /\ stats' = [stats EXCEPT !.total_articles = Len(all_articles)]
  /\ pc' = "done"
  /\ UNCHANGED << curation_vars, test_mode, pass, all_articles, failed_http_sources,
                  sorted_sources, global_sem, domain_sems, results,
                  failed_sources, task, log, elapsed >>

\* the awaiting execute is cancelled from outside: gather cancels its
\* children
CancelRun ==
  /\ pc = "gather"
  /\ ~AllFinished
  /\ pc' = "cancel"
  /\ UNCHANGED << curation_vars, test_mode, pass, stats, all_articles, failed_http_sources,
                  sorted_sources, global_sem, domain_sems, results,
                  failed_sources, task, log, elapsed >>

\* CancelledError reaches a child at its await; it is no Exception, so the
\* except branch is skipped and only the `async with` exits run
TaskCancelled(n) ==
  LET d == TaskDomain(n) IN
  /\ pc = "cancel"
  /\ task[n].st \in {"wait_global", "wait_domain"} \cup InCollect
  /\ global_sem' = IF task[n].st = "wait_global"
                   THEN SemCancelWait(global_sem, n)
                   ELSE SemRelease(global_sem)
  /\ domain_sems' = IF task[n].st = "wait_global" THEN domain_sems
                    ELSE IF task[n].st = "wait_domain"
                    THEN [domain_sems EXCEPT ![d] = SemCancelWait(@, n)]
                    ELSE [domain_sems EXCEPT ![d] = SemRelease(@)]
  /\ task' = [task EXCEPT ![n] = [NoTask EXCEPT !.st = "cancelled"]]
  /\ UNCHANGED << curation_vars, test_mode, pc, pass, stats, all_articles,
                  failed_http_sources, sorted_sources, results,
                  failed_sources, log, elapsed >>

\* every child is done: gather, and with it execute, raises CancelledError
CancelFinish ==
  /\ pc = "cancel"
  /\ AllFinished
  /\ pc' = "cancelled"
  /\ UNCHANGED << curation_vars, test_mode, pass, stats, all_articles, failed_http_sources,
                  sorted_sources, global_sem, domain_sems, results,
                  failed_sources, task, log, elapsed >>

Next ==
  \/ Start
  \/ EnterPass
  \/ SkipPass
  \/ \E n \in Names : StartTask(n)
  \/ \E n \in Names : ResumeGlobal(n)
  \/ \E n \in Names : ResumeDomain(n)
  \/ \E n \in Names : FetchGiveUp(n)
  \/ \E n \in Names : \E k \in 0..MaxItems : FetchOk(n, k)
  \/ \E n \in Names : ExtractRaise(n)
  \/ \E n \in Names : SleepDone(n)
  \/ \E n \in Names : CollectRaise(n)
  \/ GatherReturn
  \/ Close
  \/ CancelRun
  \/ \E n \in Names : TaskCancelled(n)
  \/ CancelFinish

Spec == Init /\ [][Next]_vars

TypeOK ==
  /\ pc \in {"start", "check", "launch", "gather", "close", "done",
             "cancel", "cancelled"}
  /\ pass \in 1..3
  /\ elapsed \in 0..RunTimeout
  /\ global_sem.value \in 0..MAX_CONCURRENCY
  /\ \A d \in Domains : domain_sems[d].value \in 0..MAX_PER_DOMAIN

(* ---------------------------------------------------------------- claims *)
\* tasks inside `async with global_sem:`: a permit taken or handed over
GlobalHolders ==
  {n \in Names : \/ task[n].st \in {"wait_domain"} \cup InCollect
                 \/ task[n].st = "wait_global" /\ n \in global_sem.woken}

\* tasks inside `async with domain_sem:` of domain d
DomainHolders(d) ==
  {n \in Names : /\ task[n].st # "none"
                 /\ TaskDomain(n) = d
                 /\ \/ task[n].st \in InCollect
                    \/ task[n].st = "wait_domain" /\ n \in domain_sems[d].woken}

\* the sources of this run
RunNames == {get_all_sources(test_mode)[k].name :
               k \in 1..Len(get_all_sources(test_mode))}

Ran(name, n) == \E e \in log : e.name = name /\ e.source = n

ItemsOf(n, seq) == {k \in 1..Len(seq) : seq[k].source_name = n}

\* C1: at every moment of execute at most MAX_CONCURRENCY source-tasks hold
\* a global permit, whichever pass is running.
C1_GlobalCap ==
  /\ Cardinality(GlobalHolders) <= MAX_CONCURRENCY
  /\ Cardinality({n \in Names : task[n].st \in InCollect}) <= MAX_CONCURRENCY

\* all global permits are taken and a further task queues for one
C1_Witness ==
  /\ Cardinality({n \in Names : task[n].st \in InCollect}) = MAX_CONCURRENCY
  /\ \E n \in Names : task[n].st = "wait_global" /\ n \notin global_sem.woken

\* the tasks that are fetching a URL of domain d right now
FetchingOn(d) ==
  {n \in Names : /\ task[n].st = "fetch"
                 /\ _get_domain(Source(n).urls[task[n].i]) = d}

\* C2: a task fetching a URL holds the per-domain permit of that URL's own
\* domain, so at most MAX_PER_DOMAIN fetches target one domain at a time.
C2_DomainCap ==
  \A d \in Domains :
    /\ FetchingOn(d) \subseteq DomainHolders(d)
    /\ Cardinality(FetchingOn(d)) <= MAX_PER_DOMAIN

SemFull(sem, cap) ==
  sem.value = cap /\ sem.waiters = << >> /\ sem.woken = {}

\* C3: every permit a task took is back when the task has ended, however it
\* ended: the permits out are exactly those of the tasks still inside, and
\* once every task of the pass has ended both kinds of semaphore are at
\* full capacity.
C3_PermitsReleased ==
  /\ global_sem.value + Cardinality(GlobalHolders) = MAX_CONCURRENCY
  /\ \A d \in Domains :
       domain_sems[d].value + Cardinality(DomainHolders(d)) = MAX_PER_DOMAIN
  /\ (PassTasks # {} /\ AllFinished) =>
       /\ SemFull(global_sem, MAX_CONCURRENCY)
       /\ \A d \in Domains : SemFull(domain_sems[d], MAX_PER_DOMAIN)

\* a pass whose tasks ended in the three ways: returned, raised, cancelled
C3_Witness ==
  /\ AllFinished
  /\ \E n \in Names : task[n].st = "done"
  /\ \E n \in Names : task[n].st = "raised"
  /\ \E n \in Names : task[n].st = "cancelled"

\* the HTTP pass got nothing from source n
HttpZero(n) == \E e \in log : e.name = "HTTP" /\ e.source = n /\ e.count = 0

\* C4: a source is run again by the browser in the same execute exactly
\* when it is HTTP-declared and its HTTP pass produced no item; it is then
\* counted in fallback_sources; other sources run once.
C4_FallbackIff ==
  pc = "done" =>
    /\ \A n \in RunNames :
         /\ Ran("Fallback-Browser", n) <=>
              (Source(n).collector_type = "http" /\ HttpZero(n))
         /\ Ran("HTTP", n) <=> Source(n).collector_type = "http"
         /\ Ran("Browser", n) <=> Source(n).collector_type = "browser"
    /\ stats.fallback_sources =
         Cardinality({n \in RunNames : Ran("Fallback-Browser", n)})

\* one HTTP source fell back, another one yielded items and did not
C4_Witness ==
  /\ pc = "done"
  /\ \E n \in RunNames : Ran("Fallback-Browser", n)
  /\ \E n \in RunNames : /\ Source(n).collector_type = "http"
                         /\ ~Ran("Fallback-Browser", n)

\* C5: when execute has finished, failed_sources is the number of sources
\* that ended the run with zero items.
C5_FailedCount ==
  pc = "done" =>
    stats.failed_sources =
      Cardinality({n \in RunNames : ItemsOf(n, all_articles) = {}})

\* C6: execute returns only after every source-task of every pass has
\* finished: no task is running or holds a permit once a pass has returned,
\* and at the end every task of every pass has logged its outcome.
C6_WaitsForAll ==
  /\ pc \in {"check", "close", "done"} =>
       /\ AllFinished
       /\ GlobalHolders = {}
       /\ \A d \in Domains : DomainHolders(d) = {}
  /\ pc = "done" =>
       \A p \in 1..3 : \A n \in SeqToSet(PassSources(p)) :
         Ran(CollectorName(p), n)

\* execute has returned items after a fallback pass
C6_Witness ==
  /\ pc = "done"
  /\ \E n \in RunNames : Ran("Fallback-Browser", n)
  /\ all_articles # << >>

\* seq has the elements of sub, in order, as a contiguous block
Contains(seq, sub) ==
  \E k \in 0..(Len(seq) - Len(sub)) :
     \A j \in 1..Len(sub) : seq[k + j] = sub[j]

\* C7: an exception in one source's task neither stops nor cancels its
\* siblings: when the pass is over every other task has run to its end and
\* its items are in the list, and the source that raised is recorded failed.
C7_SiblingsIsolated ==
  /\ \A n \in Names : task[n].st = "raised" => n \in SeqToSet(failed_sources)
  /\ (pc = "gather" /\ AllFinished) =>
       \A n \in PassTasks :
         /\ task[n].st \in {"done", "raised"}
         /\ task[n].st = "done" => Contains(results, task[n].articles)
  /\ pc = "done" =>
       /\ \A e \in log : Cardinality(ItemsOf(e.source, all_articles)) >= e.count
       /\ stats.failed_sources =
            Cardinality({e \in log : ~e.ok \/ e.count = 0})

\* a pass is over in which one task raised and a sibling delivered items
C7_Witness ==
  /\ pc = "gather"
  /\ AllFinished
  /\ \E n, m \in PassTasks :
       /\ task[n].st = "raised"
       /\ task[m].st = "done"
       /\ task[m].articles # << >>

\* URL i of source n fails for good in this step
UrlFails(n) == FetchGiveUp(n) \/ ExtractRaise(n)

\* C8: a URL that fails for good is skipped and no exception leaves collect:
\* collect keeps the items it has and goes on to the next URL, or, after the
\* last URL, returns them.
C8_UrlSkipped ==
  [][\A n \in Names : UrlFails(n) =>
       /\ task'[n].st # "raised"
       /\ task'[n].articles = task[n].articles
       /\ task[n].i \in task'[n].skipped
       /\ IF task[n].i < Len(Source(n).urls)
          THEN /\ task'[n].st \in InCollect
               /\ task'[n].st = "fetch" => task'[n].i = task[n].i + 1
          ELSE /\ task'[n].st \in InCollect \cup {"done"}
               /\ task'[n].st = "done" =>
                    /\ Contains(results', task[n].articles)
                    /\ (task[n].articles # << >> =>
                          n \notin SeqToSet(failed_sources'))]_vars

\* collect has returned an item of one URL although its other URL failed
C8_Witness ==
  \E n \in Names :
    /\ task[n].st = "done"
    /\ task[n].skipped # {}
    /\ task[n].articles # << >>

\* the pass a source's items come from
PassOf(n) ==
  IF Source(n).collector_type = "browser" THEN 2
  ELSE IF n \in SeqToSet(failed_http_sources) THEN 3 ELSE 1

\* position of n among the tasks of its pass
RankOf(n) ==
  LET ss == sorted_by_priority(PassSources(PassOf(n)))
  IN CHOOSE k \in 1..Len(ss) : ss[k] = n

\* C9: the item list handed on does not depend on the order in which the
\* tasks complete: it is always in the one order fixed by pass and by the
\* sources' sorted position.
C9_StableOrder ==
  pc = "done" =>
    \A i, j \in 1..Len(all_articles) :
      (i < j /\ PassOf(all_articles[i].source_name)
                  = PassOf(all_articles[j].source_name)) =>
        RankOf(all_articles[i].source_name)
          <= RankOf(all_articles[j].source_name)

\* a task begins the fetch of a URL in this step
BeginsFetch(n) ==
  /\ task'[n].st = "fetch"
  /\ task[n].st # "fetch" \/ task'[n].i # task[n].i

\* C10: once the run-level timeout has expired the outstanding tasks are
\* aborted: no task begins another fetch and no further pass is launched.
C10_TimeoutAborts ==
  [][elapsed = RunTimeout =>
       /\ \A n \in Names : ~BeginsFetch(n)
       /\ pc' # "launch"]_vars


(***************************************************************************)
(* Curation stage: Deduplicator (src/src/curators/deduplicator.py).        *)
(* A Python str is the sequence of its characters, each a one-character    *)
(* string; a CJK character is written as its pinyin syllable.              *)
(***************************************************************************)

(* ---------------------------------------------------------------- bounds *)
\* longest list of articles handed to deduplicate
MaxLen == 3

(* ------------------------------------------------------------- constants *)
\* settings.DEDUP_SIMILARITY_THRESHOLD = 0.8, as the fraction 4/5
DEDUP_SIMILARITY_THRESHOLD == << 4, 5 >>

(* ------------------------------------------------------------ str methods *)
\* str.isspace for one character
IsSpace(c) == c \in {" ", "\t", "\n"}

\* the characters the regex class \w matches
WordChars ==
  {"a", "b", "c", "d", "e", "f", "g", "h", "i", "j", "k", "l", "m", "n",
   "o", "p", "q", "r", "s", "t", "u", "v", "w", "x", "y", "z",
   "A", "B", "C", "D", "E", "H", "P", "X", "Y", "Z",
   "0", "1", "2", "3", "4", "5", "6", "7", "8", "9", "_"}

UpperToLower ==
  [c \in {"A", "B", "C", "D", "E", "F", "G", "H", "I", "J", "K", "L", "M",
          "N", "O", "P", "Q", "R", "S", "T", "U", "V", "W", "X", "Y", "Z"} |->
     CASE c = "A" -> "a" [] c = "B" -> "b" [] c = "C" -> "c"
       [] c = "D" -> "d" [] c = "E" -> "e" [] c = "F" -> "f"
       [] c = "G" -> "g" [] c = "H" -> "h" [] c = "I" -> "i"
       [] c = "J" -> "j" [] c = "K" -> "k" [] c = "L" -> "l"
       [] c = "M" -> "m" [] c = "N" -> "n" [] c = "O" -> "o"
       [] c = "P" -> "p" [] c = "Q" -> "q" [] c = "R" -> "r"
       [] c = "S" -> "s" [] c = "T" -> "t" [] c = "U" -> "u"
       [] c = "V" -> "v" [] c = "W" -> "w" [] c = "X" -> "x"
       [] c = "Y" -> "y" [] c = "Z" -> "z"]

\* str.lower
lower(s) ==
  [k \in 1..Len(s) |->
     IF s[k] \in DOMAIN UpperToLower THEN UpperToLower[s[k]] ELSE s[k]]

\* str.lstrip() / str.rstrip() / str.strip()
RECURSIVE lstrip(_)
lstrip(s) ==
  IF s # << >> /\ IsSpace(Head(s)) THEN lstrip(Tail(s)) ELSE s

RECURSIVE rstrip(_)
rstrip(s) ==
  IF s # << >> /\ IsSpace(s[Len(s)])
  THEN rstrip(SubSeq(s, 1, Len(s) - 1)) ELSE s

strip(s) == rstrip(lstrip(s))

\* str.rstrip(ch) for a single character ch
RECURSIVE rstrip_char(_, _)
rstrip_char(s, ch) ==
  IF s # << >> /\ s[Len(s)] = ch
  THEN rstrip_char(SubSeq(s, 1, Len(s) - 1), ch) ELSE s

\* s[p:].startswith(lit), p a 1-based position
StartsWithAt(s, p, lit) ==
  /\ p + Len(lit) - 1 <= Len(s)
  /\ \A k \in 1..Len(lit) : s[p + k - 1] = lit[k]

\* `sub in s`
IsSubstring(sub, s) ==
  \E p \in 1..(Len(s) + 1) : StartsWithAt(s, p, sub)

\* re.sub(r"\s+", " ", s)
RECURSIVE collapse_spaces(_)
collapse_spaces(s) ==
  IF s = << >> THEN << >>
  ELSE IF IsSpace(Head(s))
       THEN << " " >> \o collapse_spaces(lstrip(s))
       ELSE << Head(s) >> \o collapse_spaces(Tail(s))

\* the first position at or after p that holds a character outside / inside
\* whitespace (Len(s) + 1 if there is none)
RECURSIVE SkipSpaces(_, _)
SkipSpaces(s, p) ==
  IF p <= Len(s) /\ IsSpace(s[p]) THEN SkipSpaces(s, p + 1) ELSE p

RECURSIVE SkipWord(_, _)
SkipWord(s, p) ==
  IF p <= Len(s) /\ ~IsSpace(s[p]) THEN SkipWord(s, p + 1) ELSE p

\* set(s.split())
RECURSIVE split_set(_)
split_set(s) ==
  LET b == SkipSpaces(s, 1)
      e == SkipWord(s, b)
  IN IF b > Len(s) THEN {}
     ELSE {SubSeq(s, b, e - 1)} \cup split_set(SubSeq(s, e, Len(s)))

(* --------------------------------------------------------- _normalize_url *)
\* the end of the run of \w characters that starts at p
RECURSIVE SkipWordChars(_, _)
SkipWordChars(s, p) ==
  IF p <= Len(s) /\ s[p] \in WordChars THEN SkipWordChars(s, p + 1) ELSE p

\* the end of the run of [^&] characters that starts at p
RECURSIVE SkipToAmp(_, _)
SkipToAmp(s, p) ==
  IF p <= Len(s) /\ s[p] # "&" THEN SkipToAmp(s, p + 1) ELSE p

\* the position after a match of (utm_\w+|ref|source|campaign)= at p, or 0;
\* \w+ is greedy and "=" is no \w character, so no shorter \w+ can match
TrackingNameEnd(s, p) ==
  LET w == SkipWordChars(s, p + 4)
  IN IF /\ StartsWithAt(s, p, << "u", "t", "m", "_" >>)
        /\ w > p + 4
        /\ StartsWithAt(s, w, << "=" >>)
     THEN w + 1
     ELSE IF StartsWithAt(s, p, << "r", "e", "f", "=" >>) THEN p + 4
     ELSE IF StartsWithAt(s, p, << "s", "o", "u", "r", "c", "e", "=" >>)
          THEN p + 7
     ELSE IF StartsWithAt(s, p,
               << "c", "a", "m", "p", "a", "i", "g", "n", "=" >>)
          THEN p + 9
     ELSE 0

\* the position after a match of the whole pattern
\* [?&](utm_\w+|ref|source|campaign)=[^&]* at p, or 0
TrackingMatchEnd(s, p) ==
  IF p <= Len(s) /\ s[p] \in {"?", "&"} /\ TrackingNameEnd(s, p + 1) # 0
  THEN SkipToAmp(s, TrackingNameEnd(s, p + 1))
  ELSE 0

\* re.sub(r"[?&](utm_\w+|ref|source|campaign)=[^&]*", "", s[p:]): matches
\* are found left to right and do not overlap
RECURSIVE remove_tracking(_, _)
remove_tracking(s, p) ==
  IF p > Len(s) THEN << >>
  ELSE IF TrackingMatchEnd(s, p) # 0
       THEN remove_tracking(s, TrackingMatchEnd(s, p))
       ELSE << s[p] >> \o remove_tracking(s, p + 1)

\* Deduplicator._normalize_url
_normalize_url(url) ==
  remove_tracking(lower(rstrip_char(strip(url), "/")), 1)

(* ------------------------------------------------------- _normalize_title *)
\* Deduplicator._normalize_title
_normalize_title(title) == collapse_spaces(lower(strip(title)))

(* ---------------------------------------------------- _jaccard_similarity *)
\* Deduplicator._jaccard_similarity(set1, set2) >= threshold, the quotient
\* compared as integers; an empty set gives 0.0
JaccardAtLeast(set1, set2, threshold) ==
  /\ set1 # {}
  /\ set2 # {}
  /\ Cardinality(set1 \cap set2) * threshold[2]
       >= threshold[1] * Cardinality(set1 \cup set2)

\* Deduplicator._is_similar_to_any
_is_similar_to_any_NoShortExemption(title, seen_titles) ==
  \E k \in 1..Len(seen_titles) :
     JaccardAtLeast(split_set(title), split_set(seen_titles[k]),
                    DEDUP_SIMILARITY_THRESHOLD)

_is_similar_to_any(title, seen_titles) ==
  /\ Cardinality(split_set(title)) >= 3
  /\ \E k \in 1..Len(seen_titles) :
        JaccardAtLeast(split_set(title), split_set(seen_titles[k]),
                       DEDUP_SIMILARITY_THRESHOLD)

(* --------------------------------------------------------- _is_placeholder *)
JieTuCaiJi == << "jie", "tu", "cai", "ji" >>
XuYaoRenGongChuLi == << "xu", "yao", "ren", "gong", "chu", "li" >>

\* the markers listed in Deduplicator._is_placeholder
placeholders ==
  { JieTuCaiJi,
    XuYaoRenGongChuLi,
    << "fan", "pa", "bao", "hu" >>,
    << "[" >> \o JieTuCaiJi \o << "]" >>,
    << "jie", "tu", "yi", "bao", "cun" >>,
    << "jie", "tu", "yi", "cun", "dang" >> }

\* Deduplicator._is_placeholder
_is_placeholder_ExactMatch(title) == title \in placeholders

_is_placeholder(title) == \E p \in placeholders : IsSubstring(p, title)

\* the title BrowserCollector._basic_screenshot_extract gives the one item
\* it emits for a page it could only capture as a screenshot
PlaceholderTitle(source_name) ==
  << "[" >> \o JieTuCaiJi \o << "]", " " >> \o source_name
    \o << " ", "-", " " >> \o XuYaoRenGongChuLi

(* --------------------------------------------------- compute_content_hash *)
\* ContentExtractor.compute_content_hash: the MD5 digest of
\* title.strip().lower() + "|" + url.strip().lower(), as the text it digests
compute_content_hash(title, url) ==
  lower(strip(title)) \o << "|" >> \o lower(strip(url))

\* the RawArticle both collectors build from an extracted entry
RawArticle(title, url) ==
  [title |-> title, url |-> url,
   content_hash |-> compute_content_hash(title, url)]

(* -------------------------------------------------------------- deduplicate *)
\* `not article.title or len(article.title.strip()) < 3`
TitleInvalid(title) == title = << >> \/ Len(strip(title)) < 3

\* deduplicate's locals before the loop
NoneSeen ==
  [seen_urls |-> {}, seen_hashes |-> {}, seen_titles |-> << >>,
   unique_articles |-> << >>, kept |-> << >>]

\* lines 61-66: the article is kept and its three keys are recorded; k is its
\* position in the input
Record_Nothing(st, k, article) ==
  [st EXCEPT !.unique_articles = Append(@, article),
             !.kept = Append(@, k)]

Record_Prepends(st, k, article) ==
  [seen_urls |-> st.seen_urls \cup {_normalize_url(article.url)},
   seen_hashes |-> IF article.content_hash # << >>
                   THEN st.seen_hashes \cup {article.content_hash}
                   ELSE st.seen_hashes,
   seen_titles |-> Append(st.seen_titles, _normalize_title(article.title)),
   unique_articles |-> << article >> \o st.unique_articles,
   kept |-> Append(st.kept, k)]

Record_StoresNormalizedUrl(st, k, article) ==
  [seen_urls |-> st.seen_urls \cup {_normalize_url(article.url)},
   seen_hashes |-> IF article.content_hash # << >>
                   THEN st.seen_hashes \cup {article.content_hash}
                   ELSE st.seen_hashes,
   seen_titles |-> Append(st.seen_titles, _normalize_title(article.title)),
   unique_articles |->
     Append(st.unique_articles,
            [article EXCEPT !.url = _normalize_url(article.url)]),
   kept |-> Append(st.kept, k)]

Record(st, k, article) ==
  [seen_urls |-> st.seen_urls \cup {_normalize_url(article.url)},
   seen_hashes |-> IF article.content_hash # << >>
                   THEN st.seen_hashes \cup {article.content_hash}
                   ELSE st.seen_hashes,
   seen_titles |-> Append(st.seen_titles, _normalize_title(article.title)),
   unique_articles |-> Append(st.unique_articles, article),
   kept |-> Append(st.kept, k)]

\* lines 37-59: the checks that `continue` past an article
Rejected(st, article) ==
  \/ TitleInvalid(article.title)
  \/ _is_placeholder(article.title)
  \/ _normalize_url(article.url) \in st.seen_urls
  \/ article.content_hash # << >> /\ article.content_hash \in st.seen_hashes
  \/ _is_similar_to_any(_normalize_title(article.title), st.seen_titles)

\* the loop of deduplicate from position k on
RECURSIVE DedupLoop(_, _, _)
DedupLoop(list, k, st) ==
  IF k > Len(list) THEN st
  ELSE DedupLoop(list, k + 1,
                 IF Rejected(st, list[k]) THEN st
                 ELSE Record(st, k, list[k]))

\* Deduplicator.deduplicate
deduplicate(list) == DedupLoop(list, 1, NoneSeen).unique_articles

\* the input positions of the articles deduplicate keeps
Survivors(list) == SeqToSet(DedupLoop(list, 1, NoneSeen).kept)


(* --------------------------------------------------- the articles collected *)
\* a title of one-letter words separated by single spaces
RECURSIVE Spaced(_)
Spaced(words) ==
  IF Len(words) <= 1 THEN words
  ELSE << Head(words), " " >> \o Spaced(Tail(words))

\* a URL as its parts: whitespace around it, scheme-host-path, a trailing
\* slash, and the query parameters in order
QueryParam(name) ==
  CASE name = "ref" -> << "r", "e", "f", "=", "1" >>
    [] name = "utm" -> << "u", "t", "m", "_", "a", "=", "1" >>
    [] name = "id" -> << "i", "=", "2" >>

RECURSIVE QueryString(_, _)
QueryString(query, first) ==
  IF query = << >> THEN << >>
  ELSE << IF first THEN "?" ELSE "&" >> \o QueryParam(Head(query))
         \o QueryString(Tail(query), FALSE)

UrlOf(u) ==
  u.lead \o u.base \o (IF u.slash THEN << "/" >> ELSE << >>)
    \o QueryString(u.query, TRUE) \o u.trail

UrlParts(lead, base, slash, query, trail) ==
  [lead |-> lead, base |-> base, slash |-> slash, query |-> query,
   trail |-> trail]

hp == << "h", "/", "p" >>
HP == << "H", "/", "P" >>
hq == << "h", "/", "q" >>

\* the URLs of the collected articles
UrlPlain == UrlParts(<< >>, hp, FALSE, << >>, << >>)
UrlUpper == UrlParts(<< >>, HP, FALSE, << >>, << >>)
UrlPadded == UrlParts(<< " " >>, hp, FALSE, << >>, << "\n" >>)
UrlRef == UrlParts(<< >>, hp, FALSE, << "ref" >>, << >>)
UrlId == UrlParts(<< >>, hp, FALSE, << "id" >>, << >>)
UrlUtmId == UrlParts(<< >>, hp, FALSE, << "utm", "id" >>, << >>)
UrlIdUtm == UrlParts(<< >>, hp, FALSE, << "id", "utm" >>, << >>)
UrlSlash == UrlParts(<< >>, hp, TRUE, << >>, << >>)
UrlSlashRef == UrlParts(<< >>, hp, TRUE, << "ref" >>, << >>)
UrlOther == UrlParts(<< >>, hq, FALSE, << >>, << >>)

Urls ==
  {UrlPlain, UrlUpper, UrlPadded, UrlRef, UrlId, UrlUtmId, UrlIdUtm,
   UrlSlash, UrlSlashRef, UrlOther}

\* the titles of the collected articles
TitleABCD == Spaced(<< "a", "b", "c", "d" >>)
TitleABCDE == Spaced(<< "a", "b", "c", "d", "e" >>)
TitleABCE == Spaced(<< "a", "b", "c", "e" >>)
TitleXYZ == Spaced(<< "x", "y", "z" >>)
TitleAbcdPadded == << "A", " ", "b", " ", "c", " ", "d", " " >>
TitleAbcdWide == << "a", " ", " ", "B", "\t", "c", " ", "d" >>
TitleAB == Spaced(<< "a", "b" >>)
TitleBA == Spaced(<< "B", "a" >>)
TitleTooShort == << " ", "a", "b", " " >>

\* the articles the collectors hand over: title and URL of each
Collected ==
  { << TitleABCD, UrlPlain >>,
    << TitleABCDE, UrlOther >>,
    << TitleABCE, UrlId >>,
    << TitleAbcdPadded, UrlPadded >>,
    << TitleAbcdWide, UrlSlashRef >>,
    << TitleXYZ, UrlUpper >>,
    << TitleXYZ, UrlRef >>,
    << TitleXYZ, UrlUtmId >>,
    << TitleXYZ, UrlIdUtm >>,
    << TitleAB, UrlSlash >>,
    << TitleBA, UrlSlashRef >>,
    << PlaceholderTitle(<< "s" >>), UrlOther >>,
    << TitleTooShort, UrlOther >> }

Articles == {RawArticle(c[1], UrlOf(c[2])) : c \in Collected}

(* ------------------------------------------------------ deduplication run *)
collection_vars ==
  << test_mode, pc, pass, stats, all_articles, failed_http_sources,
     sorted_sources, global_sem, domain_sems, results, failed_sources,
     task, log, elapsed >>

\* the collection scheduler before execute is called
CollectionIdle ==
  /\ test_mode = FALSE
  /\ pc = "start"
  /\ pass = 1
  /\ stats = [total_sources |-> 0, success_sources |-> 0,
              failed_sources |-> 0, fallback_sources |-> 0,
              total_articles |-> 0, total_urls |-> 0]
  /\ all_articles = << >>
  /\ failed_http_sources = << >>
  /\ sorted_sources = << >>
  /\ global_sem = NewSemaphore(MAX_CONCURRENCY)
  /\ domain_sems = [d \in Domains |-> NewSemaphore(MAX_PER_DOMAIN)]
  /\ results = << >>
  /\ failed_sources = << >>
  /\ task = [n \in Names |-> NoTask]
  /\ log = {}
  /\ elapsed = 0

DedupInit ==
  /\ CollectionIdle
  /\ FetchIdle
  /\ DailyIdle
  /\ OracleIdle
  /\ CurateIdle
  /\ dd_pc = "input"
  /\ articles = << >>
  /\ unique_articles = << >>
  /\ rerun_articles = << >>

\* one more article arrives in the list that will be deduplicated
Collect(a) ==
  /\ dd_pc = "input"
  /\ Len(articles) < MaxLen
  /\ articles' = Append(articles, a)
  /\ UNCHANGED << dd_pc, unique_articles, rerun_articles, oracle_vars,
                  curate_vars, collection_vars, daily_vars,
                  fetch_vars >>

\* deduplicate(articles) is called
Deduplicate ==
  /\ dd_pc = "input"
  /\ unique_articles' = deduplicate(articles)
  /\ dd_pc' = "deduped"
  /\ UNCHANGED << articles, rerun_articles, oracle_vars, curate_vars,
                  collection_vars, daily_vars,
                  fetch_vars >>

\* deduplicate is called on its own result
DeduplicateAgain ==
  /\ dd_pc = "deduped"
  /\ rerun_articles' = deduplicate(unique_articles)
  /\ dd_pc' = "rerun"
  /\ UNCHANGED << articles, unique_articles, oracle_vars, curate_vars,
                  collection_vars, daily_vars,
                  fetch_vars >>

DedupNext ==
  \/ \E a \in Articles : Collect(a)
  \/ Deduplicate
  \/ DeduplicateAgain

SpecDedup == DedupInit /\ [][DedupNext]_vars

(* ------------------------------------------------------- claims C11 - C16 *)
\* the article at input position k passes the title checks of lines 37-44
Valid(a) == ~TitleInvalid(a.title) /\ ~_is_placeholder(a.title)

\* C11: once deduplicate has returned, no two articles of its result carry
\* the same content_hash
C11_FingerprintUnique ==
  dd_pc # "input" =>
    \A i, j \in 1..Len(unique_articles) :
       i # j => unique_articles[i].content_hash
                  # unique_articles[j].content_hash

\* two valid articles with the same content_hash were in the input and
\* the first of them was kept
C11_Witness ==
  /\ dd_pc = "deduped"
  /\ \E i, j \in 1..Len(articles) :
        /\ i < j
        /\ Valid(articles[i]) /\ Valid(articles[j])
        /\ articles[i].content_hash = articles[j].content_hash
        /\ articles[i] # articles[j]
        /\ i \in Survivors(articles)

\* C12: deduplicating the result of deduplicate returns that result again,
\* the same articles in the same order
C12_Idempotent == dd_pc = "rerun" => rerun_articles = unique_articles

\* the second run was given a list of several articles that the first run
\* had shortened
C12_Witness ==
  /\ dd_pc = "rerun"
  /\ Len(unique_articles) >= 2
  /\ Len(unique_articles) < Len(articles)

\* sub can be obtained from seq by deleting elements
RECURSIVE IsSubsequence(_, _)
IsSubsequence(sub, seq) ==
  IF sub = << >> THEN TRUE
  ELSE IF seq = << >> THEN FALSE
  ELSE IF Head(sub) = Head(seq) THEN IsSubsequence(Tail(sub), Tail(seq))
  ELSE IsSubsequence(sub, Tail(seq))

\* b, met after a, is a duplicate of a by one of the three keys of
\* deduplicate: normalized URL, content hash, title similarity
Duplicates(a, b) ==
  \/ _normalize_url(a.url) = _normalize_url(b.url)
  \/ a.content_hash # << >> /\ a.content_hash = b.content_hash
  \/ _is_similar_to_any(_normalize_title(b.title),
                        << _normalize_title(a.title) >>)

\* C13 as stated: the result is a subsequence of the input, and of two valid
\* articles that duplicate one another the later one does not survive
C13_FirstSurvives ==
  dd_pc = "deduped" =>
    LET kept == Survivors(articles)
    IN /\ IsSubsequence(unique_articles, articles)
       /\ \A j \in kept : \A i \in 1..(j - 1) :
             Valid(articles[i]) => ~Duplicates(articles[i], articles[j])

\* C13 amended: the result is a subsequence of the input, and a valid article
\* survives exactly if it duplicates no earlier survivor
C13_FirstSurvivor ==
  dd_pc = "deduped" =>
    LET kept == Survivors(articles)
    IN /\ IsSubsequence(unique_articles, articles)
       /\ Len(unique_articles) = Cardinality(kept)
       /\ \A j \in 1..Len(articles) :
             Valid(articles[j]) =>
               (j \in kept <=>
                  ~\E i \in kept :
                      i < j /\ Duplicates(articles[i], articles[j]))

\* an article was dropped as the duplicate of an earlier survivor, and a
\* later article that duplicates only the dropped one survived
C13_Witness ==
  /\ dd_pc = "deduped"
  /\ LET kept == Survivors(articles)
     IN \E i, k \in kept : \E j \in 1..Len(articles) \ kept :
           /\ i < j /\ j < k
           /\ Valid(articles[j])
           /\ Duplicates(articles[i], articles[j])
           /\ Duplicates(articles[j], articles[k])

\* the query parameters _normalize_url means to remove
IsTracking(name) == name \in {"ref", "utm"}

NotTracking(name) == ~IsTracking(name)

\* two URLs that differ at most in letter case, in the whitespace around
\* them and in their tracking parameters
SameButTracking(u, v) ==
  /\ lower(u.base) = lower(v.base)
  /\ u.slash = v.slash
  /\ SelectSeq(u.query, NotTracking) = SelectSeq(v.query, NotTracking)

\* C14: of two valid articles whose URLs differ only in case, surrounding
\* whitespace or tracking parameters, deduplicate keeps the first alone
C14_UrlDuplicates ==
  dd_pc = "deduped" =>
    \A i, j \in 1..Len(articles) :
       /\ i < j
       /\ Valid(articles[i]) /\ Valid(articles[j])
       /\ \E u, v \in Urls :
             /\ UrlOf(u) = articles[i].url
             /\ UrlOf(v) = articles[j].url
             /\ SameButTracking(u, v)
       => deduplicate(<< articles[i], articles[j] >>) = << articles[i] >>

\* the distinct words of an article's normalized title
TitleWords(a) == split_set(_normalize_title(a.title))

\* the word sets of the two titles have Jaccard similarity >= 0.8
NearDuplicateTitles(a, b) ==
  JaccardAtLeast(TitleWords(a), TitleWords(b), DEDUP_SIMILARITY_THRESHOLD)

IsPlaceholderItem(a) == a.title = PlaceholderTitle(<< "s" >>)

\* C16: no article whose title is the browser collector's screenshot
\* placeholder is in the result of deduplicate, wherever it was in the input
C16_NoPlaceholder ==
  /\ dd_pc # "input" =>
       \A k \in 1..Len(unique_articles) :
          ~IsPlaceholderItem(unique_articles[k])
  /\ dd_pc = "rerun" =>
       \A k \in 1..Len(rerun_articles) :
          ~IsPlaceholderItem(rerun_articles[k])

\* a placeholder stood in the input between articles that survived
C16_Witness ==
  /\ dd_pc = "deduped"
  /\ \E i, j, k \in 1..Len(articles) :
        /\ i < j /\ j < k
        /\ IsPlaceholderItem(articles[j])
        /\ {i, k} \subseteq Survivors(articles)

(***************************************************************************)
(* Curation stage: the LLM client (src/src/llm/client.py) and the curators *)
(* that call it (src/src/curators/filter.py, classifier.py, scorer.py).    *)
(* A chat response is the list of its lines, each line a str; the empty    *)
(* list is the empty response "".  The text of a title or snippet enters   *)
(* these classes only through `keyword in text` tests and is the set of    *)
(* the keywords that occur in it (title_keywords, snippet_keywords).       *)
(***************************************************************************)

(* ---------------------------------------------------------------- bounds *)
\* longest list of articles handed to a curator
MaxBatch == 2
\* most lines of a chat response
MaxLines == 2

(* ------------------------------------------------------------- constants *)
\* the keys of settings.CATEGORIES, in the order of the dict
JiShuTuPo == << "ji", "shu", "tu", "po" >>
ChanPinFaBu == << "chan", "pin", "fa", "bu" >>
QiYeDongTai == << "qi", "ye", "dong", "tai" >>
ZhengCeJianGuan == << "zheng", "ce", "jian", "guan" >>
TouRongZi == << "tou", "rong", "zi" >>
YanJiuQianYan == << "yan", "jiu", "qian", "yan" >>
HangYeYingYong == << "hang", "ye", "ying", "yong" >>
RenCaiShiChang == << "ren", "cai", "shi", "chang" >>
AnQuanLunLi == << "an", "quan", "lun", "li" >>
XinPianYuSuanLi == << "xin", "pian", "yu", "suan", "li" >>

CATEGORY_ORDER ==
  << JiShuTuPo, ChanPinFaBu, QiYeDongTai, ZhengCeJianGuan, TouRongZi,
     YanJiuQianYan, HangYeYingYong, RenCaiShiChang, AnQuanLunLi,
     XinPianYuSuanLi >>

CATEGORIES == SeqToSet(CATEGORY_ORDER)

\* the characters a response line is searched and trimmed for
FullwidthColon == "wide:"
Shi == "shi"
Fen == "fen"
Star == "star"
IndexSuffixes == {".", "dun", ")", "wide)"}

(* -------------------------------------------------------------- Python *)
\* dict.get(k, default), d[k] = v, dict.setdefault(k, v)
Get(d, k, default) == IF k \in DOMAIN d THEN d[k] ELSE default

Put(d, k, v) == [x \in DOMAIN d \cup {k} |-> IF x = k THEN v ELSE d[x]]

SetDefault(d, k, v) == IF k \in DOMAIN d THEN d ELSE Put(d, k, v)

max(a, b) == IF a >= b THEN a ELSE b

min(a, b) == IF a <= b THEN a ELSE b

DigitValue ==
  [c \in {"0", "1", "2", "3", "4", "5", "6", "7", "8", "9"} |->
     CASE c = "0" -> 0 [] c = "1" -> 1 [] c = "2" -> 2 [] c = "3" -> 3
       [] c = "4" -> 4 [] c = "5" -> 5 [] c = "6" -> 6 [] c = "7" -> 7
       [] c = "8" -> 8 [] c = "9" -> 9]

RECURSIVE DecimalValue(_)
DecimalValue(s) ==
  IF s = << >> THEN 0
  ELSE 10 * DecimalValue(SubSeq(s, 1, Len(s) - 1)) + DigitValue[s[Len(s)]]

\* int(s): ok is FALSE where Python raises ValueError
int(s) ==
  LET t == strip(s)
      signed == t # << >> /\ t[1] \in {"-", "+"}
      digits == IF signed THEN Tail(t) ELSE t
  IN IF digits = << >> \/ \E k \in 1..Len(digits) :
                             digits[k] \notin DOMAIN DigitValue
     THEN [ok |-> FALSE, value |-> 0]
     ELSE [ok |-> TRUE,
           value |-> IF t[1] = "-" THEN 0 - DecimalValue(digits)
                     ELSE DecimalValue(digits)]

\* str.rstrip(chars)
RECURSIVE rstrip_chars(_, _)
rstrip_chars(s, chars) ==
  IF s # << >> /\ s[Len(s)] \in chars
  THEN rstrip_chars(SubSeq(s, 1, Len(s) - 1), chars) ELSE s

\* `c in s` for one character
HasChar(s, c) == \E k \in 1..Len(s) : s[k] = c

\* s.split(sep, 1) of a str that contains the character sep
SplitOnce(s, sep) ==
  LET p == CHOOSE k \in 1..Len(s) :
             s[k] = sep /\ \A m \in 1..(k - 1) : s[m] # sep
  IN << SubSeq(s, 1, p - 1), SubSeq(s, p + 1, Len(s)) >>

(* ------------------------------------------------------- response parsing *)
\* the head of the loop body shared by the three parsers: the stripped line
\* is split at its first colon and the part before it is read as a 1-based
\* index; ok is FALSE where the line has no colon or int() raises
SplitLine(line) ==
  LET l == strip(line)
      sep == IF HasChar(l, ":") THEN ":" ELSE FullwidthColon
  IN IF ~(HasChar(l, ":") \/ HasChar(l, FullwidthColon))
     THEN [ok |-> FALSE, idx |-> 0, rest |-> << >>]
     ELSE LET parts == SplitOnce(l, sep)
              n == int(rstrip_chars(strip(parts[1]), IndexSuffixes))
          IN [ok |-> n.ok, idx |-> n.value - 1, rest |-> parts[2]]

\* `score = max(1, min(5, score))`
ClampScore_UpperOnly(score) == min(5, score)

ClampScore(score) == max(1, min(5, score))

\* one pass of the loop of LLMClient._parse_score_response
ParseScoreLine(line, dicts) ==
  LET p == SplitLine(line)
      n == int(rstrip_chars(strip(p.rest), {Fen, Star}))
  IN IF p.ok /\ n.ok /\ 0 <= p.idx /\ p.idx < Len(dicts)
     THEN [dicts EXCEPT ![p.idx + 1] =
             Put(@, "importance_score", ClampScore(n.value))]
     ELSE dicts

\* LLMClient._parse_score_response
RECURSIVE _parse_score_response(_, _)
_parse_score_response(lines, dicts) ==
  IF lines = << >> THEN dicts
  ELSE _parse_score_response(Tail(lines), ParseScoreLine(Head(lines), dicts))

\* one pass of the loop of LLMClient._parse_classification_response
ParseClassificationLine(line, dicts) ==
  LET p == SplitLine(line)
      cat == strip(p.rest)
  IN IF p.ok /\ cat \in CATEGORIES /\ 0 <= p.idx /\ p.idx < Len(dicts)
     THEN [dicts EXCEPT ![p.idx + 1] = Put(@, "category", cat)]
     ELSE dicts

\* LLMClient._parse_classification_response
RECURSIVE _parse_classification_response(_, _)
_parse_classification_response(lines, dicts) ==
  IF lines = << >> THEN dicts
  ELSE _parse_classification_response(
         Tail(lines), ParseClassificationLine(Head(lines), dicts))

\* one pass of the loop of LLMClient._parse_relevance_response
ParseRelevanceLine(line, dicts) ==
  LET p == SplitLine(line)
      is_yes == \/ HasChar(p.rest, Shi)
                \/ IsSubstring(<< "y", "e", "s" >>, lower(p.rest))
  IN IF p.ok /\ 0 <= p.idx /\ p.idx < Len(dicts)
     THEN [dicts EXCEPT ![p.idx + 1] = Put(@, "is_relevant", is_yes)]
     ELSE dicts

\* LLMClient._parse_relevance_response
RECURSIVE _parse_relevance_response(_, _)
_parse_relevance_response(lines, dicts) ==
  IF lines = << >> THEN dicts
  ELSE _parse_relevance_response(
         Tail(lines), ParseRelevanceLine(Head(lines), dicts))

(* --------------------------------------------------------------- fallbacks *)
\* the keywords that occur in f"{title} {snippet}".lower()
TextOf(d) == Get(d, "title", {}) \cup Get(d, "snippet", {})

\* client.AI_KEYWORDS, its entries that occur in the articles below
AI_KEYWORDS == {"llm", "gpt", "gpu", "openai", "chatgpt"}

\* LLMClient._fallback_filter
_fallback_filter(dicts) ==
  [i \in 1..Len(dicts) |->
     Put(dicts[i], "is_relevant", TextOf(dicts[i]) \cap AI_KEYWORDS # {})]

\* classification_keywords of _fallback_classify, its ASCII entries, in the
\* order of the dict
classification_keywords ==
  << << JiShuTuPo,
        {"breakthrough", "new model", "state-of-the-art", "benchmark"} >>,
     << ChanPinFaBu, {"launch", "release", "announce", "available"} >>,
     << QiYeDongTai, {"acquire", "merger", "partnership", "hire"} >>,
     << ZhengCeJianGuan, {"regulation", "policy", "law", "act", "govern"} >>,
     << TouRongZi, {"funding", "invest", "ipo", "valuation"} >>,
     << YanJiuQianYan, {"research", "paper", "study", "arxiv"} >>,
     << HangYeYingYong, {"deploy", "implement", "use case", "industry"} >>,
     << RenCaiShiChang, {"talent", "hire", "workforce", "job"} >>,
     << AnQuanLunLi, {"safety", "alignment", "ethics", "risk", "bias"} >>,
     << XinPianYuSuanLi, {"chip", "gpu", "semiconductor", "compute"} >> >>

\* the inner loop of _fallback_classify from entry k on
RECURSIVE BestCategory(_, _, _, _)
BestCategory(text, k, best_cat, best_count) ==
  IF k > Len(classification_keywords) THEN best_cat
  ELSE LET count == Cardinality(text \cap classification_keywords[k][2])
       IN IF count > best_count
          THEN BestCategory(text, k + 1, classification_keywords[k][1], count)
          ELSE BestCategory(text, k + 1, best_cat, best_count)

\* LLMClient._fallback_classify
_fallback_classify(dicts) ==
  [i \in 1..Len(dicts) |->
     Put(dicts[i], "category",
         BestCategory(TextOf(dicts[i]), 1, QiYeDongTai, 0))]

\* the source names whose lower() contains an entry of
\* high_priority_sources ("openai", "google", ..., "nist", "eu")
high_priority_sources ==
  {"OpenAI", "Alphabet/Google", "Microsoft", "Meta", "Apple", "NVIDIA",
   "Anthropic", "NIST", "EU AI Act", "Reuters"}

\* major_keywords of _fallback_score, its ASCII entries
major_keywords == {"breakthrough", "regulation", "ban", "billion", "launch"}

\* the body of the loop of _fallback_score
FallbackScore(d) ==
  LET bySource == IF Get(d, "source", "") \in high_priority_sources
                  THEN 1 ELSE 0
      byTitle == IF Get(d, "title", {}) \cap major_keywords # {}
                 THEN 1 ELSE 0
  IN min(3 + bySource + byTitle, 5)

\* LLMClient._fallback_score
_fallback_score(dicts) ==
  [i \in 1..Len(dicts) |->
     Put(dicts[i], "importance_score", FallbackScore(dicts[i]))]

(* --------------------------------------------------------------- LLMClient *)
\* the branch `else: art["is_relevant"] = True` taken when chat returned ""
AllRelevant(dicts) ==
  [i \in 1..Len(dicts) |-> Put(dicts[i], "is_relevant", TRUE)]

\* LLMClient.filter_relevance, for a list of one batch; lines is what chat
\* returns
filter_relevance(dicts, available, lines) ==
  IF ~available THEN _fallback_filter(dicts)
  ELSE IF lines # << >> THEN _parse_relevance_response(lines, dicts)
  ELSE AllRelevant(dicts)

\* the branch `else: art.setdefault("category", ...)` of classify_articles
DefaultCategory_Unset(dicts) == dicts

DefaultCategory(dicts) ==
  [i \in 1..Len(dicts) |-> SetDefault(dicts[i], "category", QiYeDongTai)]

\* LLMClient.classify_articles
llm_classify_articles(dicts, available, lines) ==
  IF ~available THEN _fallback_classify(dicts)
  ELSE IF lines # << >> THEN _parse_classification_response(lines, dicts)
  ELSE DefaultCategory(dicts)

\* the branch `else: art.setdefault("importance_score", 3)`
DefaultScore(dicts) ==
  [i \in 1..Len(dicts) |-> SetDefault(dicts[i], "importance_score", 3)]

\* LLMClient.score_importance
score_importance(dicts, available, lines) ==
  IF ~available THEN _fallback_score(dicts)
  ELSE IF lines # << >> THEN _parse_score_response(lines, dicts)
  ELSE DefaultScore(dicts)

(* ---------------------------------------------------------------- curators *)
\* RelevanceFilter.filter_articles: the dicts it hands to the client
FilterDicts(list) ==
  [i \in 1..Len(list) |->
     [title |-> list[i].title_keywords, snippet |-> list[i].snippet_keywords,
      index |-> i - 1]]

\* the positions filter_articles keeps, given what the client returned
RelevantIndex(dicts) ==
  {i \in 1..Len(dicts) : Get(dicts[i], "is_relevant", TRUE)}

\* the elements of list at the positions in keep, in order
RECURSIVE Pick(_, _, _)
Pick(list, keep, k) ==
  IF k > Len(list) THEN << >>
  ELSE (IF k \in keep THEN << list[k] >> ELSE << >>)
         \o Pick(list, keep, k + 1)

filter_articles(list, available, lines) ==
  Pick(list, RelevantIndex(filter_relevance(FilterDicts(list), available,
                                            lines)), 1)

\* ArticleClassifier._guess_category: source_to_category for the
\* sub-categories of the articles below, "QiYeDongTai" for any other
_guess_category(article) ==
  CASE article.source_sub_category = "AI chip companies" -> XinPianYuSuanLi
    [] article.source_sub_category = "universities" -> YanJiuQianYan
    [] article.source_sub_category = "US policy sources" -> ZhengCeJianGuan
    [] OTHER -> QiYeDongTai

\* ArticleClassifier.classify_articles: the dicts it hands to the client
ClassifyDicts(list) ==
  [i \in 1..Len(list) |->
     [title |-> list[i].title_keywords, snippet |-> list[i].snippet_keywords,
      source |-> list[i].source_name, index |-> i - 1]]

\* lines 50-54: the category of one result
CategoryOf_AsAnswered(art_dict, article) == Get(art_dict, "category", << >>)

CategoryOf(art_dict, article) ==
  LET category == Get(art_dict, "category", QiYeDongTai)
  IN IF category \notin CATEGORIES THEN _guess_category(article)
     ELSE category

classify_articles(list, available, lines) ==
  LET dicts == llm_classify_articles(ClassifyDicts(list), available, lines)
  IN [i \in 1..Len(list) |-> << list[i], CategoryOf(dicts[i], list[i]) >>]

\* scorer.TIER1_SOURCES and POLICY_SOURCES, the latter's ASCII entries
TIER1_SOURCES ==
  {"OpenAI", "Alphabet/Google", "Microsoft", "Meta", "Apple", "NVIDIA",
   "Anthropic", "xAI", "Mistral AI"}

POLICY_SOURCES ==
  {"NIST", "BIS", "FTC", "DOJ", "EU AI Act", "DSIT", "CHIPS.gov", "CRS",
   "GAO"}

\* scorer.KEY_FIGURES and MAJOR_EVENT_KEYWORDS, their entries that occur in
\* the articles below
KEY_FIGURES == {"altman", "huang", "musk"}

MAJOR_EVENT_KEYWORDS ==
  {"launch", "release", "billion", "regulation", "ban", "act", "first"}

\* ImportanceScorer._compute_bonus
_compute_bonus_Uncapped(article) ==
  LET text == article.title_keywords \cup article.snippet_keywords
  IN (IF article.source_name \in TIER1_SOURCES THEN 1 ELSE 0)
     + (IF article.source_name \in POLICY_SOURCES THEN 1 ELSE 0)
     + (IF text \cap KEY_FIGURES # {} THEN 1 ELSE 0)
     + (IF Cardinality(text \cap MAJOR_EVENT_KEYWORDS) >= 2 THEN 1 ELSE 0)

_compute_bonus(article) ==
  LET text == article.title_keywords \cup article.snippet_keywords
  IN min((IF article.source_name \in TIER1_SOURCES THEN 1 ELSE 0)
         + (IF article.source_name \in POLICY_SOURCES THEN 1 ELSE 0)
         + (IF text \cap KEY_FIGURES # {} THEN 1 ELSE 0)
         + (IF Cardinality(text \cap MAJOR_EVENT_KEYWORDS) >= 2
            THEN 1 ELSE 0),
         2)

\* ImportanceScorer.score_articles: the dicts it hands to the client
ScoreDicts(pairs) ==
  [i \in 1..Len(pairs) |->
     [title |-> pairs[i][1].title_keywords, snippet |-> pairs[i][1].snippet_keywords,
      source |-> pairs[i][1].source_name, category |-> pairs[i][2],
      index |-> i - 1]]

\* lines 110-114: the final score of one result
FinalScore(art_dict, art) ==
  min(Get(art_dict, "importance_score", 3) + _compute_bonus(art), 5)

score_articles(pairs, available, lines) ==
  LET dicts == score_importance(ScoreDicts(pairs), available, lines)
  IN [i \in 1..Len(pairs) |->
        << pairs[i][1], pairs[i][2], FinalScore(dicts[i], pairs[i][1]) >>]

(* ------------------------------------------------- articles and responses *)
\* the articles handed to the curators: source, sub-category of the source,
\* and the keywords in title and snippet
NewsItem(source_name, source_sub_category, title_keywords, snippet_keywords) ==
  [source_name |-> source_name,
   source_sub_category |-> source_sub_category,
   title_keywords |-> title_keywords,
   snippet_keywords |-> snippet_keywords]

NewsItems ==
  { NewsItem("OpenAI", "AI leaders", {"launch", "gpt"},
             {"altman", "billion"}),
    NewsItem("NIST", "US policy sources", {"regulation", "act"}, {}),
    NewsItem("Stanford HAI", "universities", {"research", "paper"},
             {"llm", "huang"}),
    NewsItem("TechCrunch", "tech and business media", {}, {}) }

\* lines an oracle may answer a scoring, classification or relevance prompt
\* with
ScoreLines ==
  { << "1", ":", "9" >>,
    << "2", ":", " ", "-", "3" >>,
    << "1", ".", ":", "4" >> \o << Fen >>,
    << "0", ":", "2" >>,
    << "1", ":", "4", ".", "5" >>,
    << "3" >> \o << FullwidthColon >> \o << "1" >>,
    << "o", "k" >> }

ClassificationLines ==
  { << "1", ":" >> \o ChanPinFaBu,
    << "2", ":", " " >> \o XinPianYuSuanLi \o << " " >>,
    << "1", ":" >> \o << "qi", "ta" >>,
    << "1", ":" >>,
    << "x", ":" >> \o ZhengCeJianGuan,
    << "3" >> \o << FullwidthColon >> \o AnQuanLunLi }

RelevanceLines ==
  { << "1", ":" >> \o << Shi >>,
    << "1", ":" >> \o << "fou" >>,
    << "2", ":", " ", "Y", "e", "s" >>,
    << "2", ":", "n", "o" >>,
    << "0", ":" >> \o << Shi >>,
    << "s", "u", "r", "e" >> }

\* the responses of at most MaxLines lines drawn from lines
Responses(lines) ==
  UNION {[1..n -> lines] : n \in 0..MaxLines}

(* -------------------------------------------------------- a curator's call *)
OracleInit ==
  /\ CollectionIdle
  /\ FetchIdle
  /\ DailyIdle
  /\ DedupIdle
  /\ CurateIdle
  /\ or_pc = "ready"
  /\ llm_available \in BOOLEAN
  /\ batch = << >>
  /\ response = << >>
  /\ result_dicts = << >>
  /\ curator_results = << >>

\* one more article is in the list the curator will be called with
Hand(a) ==
  /\ or_pc = "ready"
  /\ Len(batch) < MaxBatch
  /\ batch' = Append(batch, a)
  /\ UNCHANGED << or_pc, llm_available, response, result_dicts,
                  curator_results, dedup_vars, curate_vars,
                  collection_vars, daily_vars,
                  fetch_vars >>

\* chat is called only with a client and a non-empty list; lines is what it
\* returns, the empty response after MAX_RETRIES failed requests
ChatReturns(list, lines) ==
  (llm_available /\ list # << >>) \/ lines = << >>

\* RelevanceFilter.filter_articles(batch)
FilterArticles(lines) ==
  /\ or_pc = "ready"
  /\ ChatReturns(batch, lines)
  /\ response' = lines
  /\ result_dicts' = filter_relevance(FilterDicts(batch), llm_available,
                                      lines)
  /\ curator_results' = filter_articles(batch, llm_available, lines)
  /\ or_pc' = "filter"
  /\ UNCHANGED << llm_available, batch, dedup_vars, curate_vars,
                  collection_vars, daily_vars,
                  fetch_vars >>

\* ArticleClassifier.classify_articles(batch)
ClassifyArticles(lines) ==
  /\ or_pc = "ready"
  /\ ChatReturns(batch, lines)
  /\ response' = lines
  /\ result_dicts' = llm_classify_articles(ClassifyDicts(batch),
                                           llm_available, lines)
  /\ curator_results' = classify_articles(batch, llm_available, lines)
  /\ or_pc' = "classify"
  /\ UNCHANGED << llm_available, batch, dedup_vars, curate_vars,
                  collection_vars, daily_vars,
                  fetch_vars >>

\* the list ImportanceScorer.score_articles is called with: each article of
\* batch with a category
Classified(list) ==
  [i \in 1..Len(list) |-> << list[i], _guess_category(list[i]) >>]

\* ImportanceScorer.score_articles(Classified(batch))
ScoreArticles(lines) ==
  /\ or_pc = "ready"
  /\ ChatReturns(batch, lines)
  /\ response' = lines
  /\ result_dicts' = score_importance(ScoreDicts(Classified(batch)),
                                      llm_available, lines)
  /\ curator_results' = score_articles(Classified(batch), llm_available,
                                       lines)
  /\ or_pc' = "score"
  /\ UNCHANGED << llm_available, batch, dedup_vars, curate_vars,
                  collection_vars, daily_vars,
                  fetch_vars >>

OracleNext ==
  \/ \E a \in NewsItems : Hand(a)
  \/ \E lines \in Responses(RelevanceLines) : FilterArticles(lines)
  \/ \E lines \in Responses(ClassificationLines) : ClassifyArticles(lines)
  \/ \E lines \in Responses(ScoreLines) : ScoreArticles(lines)

SpecOracle == OracleInit /\ [][OracleNext]_vars

(* ------------------------------------------------------- claims C17 - C19 *)
\* the numbers the lines of the response give for the article at 1-based
\* position i, as int() reads them and before any clamping
AnsweredScores(i) ==
  {int(rstrip_chars(strip(SplitLine(response[k]).rest), {Fen, Star})).value :
     k \in {m \in 1..Len(response) :
              /\ SplitLine(response[m]).ok
              /\ SplitLine(response[m]).idx = i - 1
              /\ int(rstrip_chars(strip(SplitLine(response[m]).rest),
                                  {Fen, Star})).ok}}

\* C17: whatever the oracle answered and whichever bonus rules fired, every
\* item score_articles returns has an integer score from 1 to 5
C17_ScoreInScale ==
  or_pc = "score" =>
    /\ Len(curator_results) = Len(batch)
    /\ \A i \in 1..Len(curator_results) : curator_results[i][3] \in 1..5

\* the oracle gave one article a score below 1 and another, for which three
\* bonus rules fire, a score above 5
C17_Witness ==
  /\ or_pc = "score"
  /\ llm_available
  /\ \E i, j \in 1..Len(batch) :
        /\ \E v \in AnsweredScores(i) : v < 1
        /\ \E v \in AnsweredScores(j) : v > 5
        /\ _compute_bonus_Uncapped(batch[j]) > 2

\* the texts the lines of the response give as the category of the article
\* at 1-based position i
AnsweredCategories(i) ==
  {strip(SplitLine(response[k]).rest) :
     k \in {m \in 1..Len(response) :
              SplitLine(response[m]).ok /\ SplitLine(response[m]).idx = i - 1}}

\* C18: every item classify_articles returns has one of the ten labels of
\* CATEGORIES; with a client, an article that no line of the response gives
\* a label of the set gets the fixed label QiYeDongTai
C18_CategoryInSet ==
  or_pc = "classify" =>
    /\ Len(curator_results) = Len(batch)
    /\ \A i \in 1..Len(curator_results) :
          /\ curator_results[i][1] = batch[i]
          /\ curator_results[i][2] \in CATEGORIES
          /\ llm_available /\ AnsweredCategories(i) \cap CATEGORIES = {}
             => curator_results[i][2] = QiYeDongTai

\* the oracle answered one article with a label outside the set and left
\* another without any answer
C18_Witness ==
  /\ or_pc = "classify"
  /\ llm_available
  /\ \E i, j \in 1..Len(batch) :
        /\ AnsweredCategories(i) # {}
        /\ AnsweredCategories(i) \cap CATEGORIES = {}
        /\ AnsweredCategories(j) = {}

FRESHNESS_DAYS == 2

MIN_IMPORTANCE_FOR_REPORT == 3

(* ------------------------------------------------------------------ dates *)
\* a datetime is its proleptic ordinal day and the second of that day, and
\* is aware when it has a tzinfo; ok is FALSE for None and where strptime
\* raises ValueError
NoDate == [ok |-> FALSE, ordinal |-> 0, second |-> 0, aware |-> FALSE]

datetime(ordinal, second) ==
  [ok |-> TRUE, ordinal |-> ordinal, second |-> second, aware |-> FALSE]

IsLeap(year) ==
  (year % 4 = 0 /\ year % 100 # 0) \/ year % 400 = 0

DaysInMonth(year, month) ==
  CASE month = 2 -> IF IsLeap(year) THEN 29 ELSE 28
    [] month \in {4, 6, 9, 11} -> 30
    [] OTHER -> 31

RECURSIVE DaysBeforeMonth(_, _)
DaysBeforeMonth(year, month) ==
  IF month = 1 THEN 0
  ELSE DaysBeforeMonth(year, month - 1) + DaysInMonth(year, month - 1)

\* date.toordinal
toordinal(year, month, day) ==
  LET y == year - 1
  IN y * 365 + (y \div 4) - (y \div 100) + (y \div 400)
       + DaysBeforeMonth(year, month) + day

RECURSIVE Fields(_, _)
\* the pieces of s between the occurrences of the character sep
Fields(s, sep) ==
  IF \A k \in 1..Len(s) : s[k] # sep THEN << s >>
  ELSE LET k == CHOOSE j \in 1..Len(s) :
                  s[j] = sep /\ \A m \in 1..(j - 1) : s[m] # sep
       IN << SubSeq(s, 1, k - 1) >>
            \o Fields(SubSeq(s, k + 1, Len(s)), sep)

\* a directive's field: lo to hi digits whose value is in values
IsField(s, lo, hi, values) ==
  /\ Len(s) \in lo..hi
  /\ \A k \in 1..Len(s) : s[k] \in DOMAIN DigitValue
  /\ DecimalValue(s) \in values

\* the date strptime builds from the text of %Y and %d and the number of
\* the month (0: no month): four digits of year, one or two of day, and a
\* day the month has
DateOf(year, month, day) ==
  IF /\ IsField(year, 4, 4, 1..9999)
     /\ month \in 1..12
     /\ IsField(day, 1, 2, 1..31)
     /\ DecimalValue(day) <= DaysInMonth(DecimalValue(year), month)
  THEN datetime(toordinal(DecimalValue(year), month, DecimalValue(day)), 0)
  ELSE NoDate

\* %m: one or two digits
MonthNumber(s) == IF IsField(s, 1, 2, 1..12) THEN DecimalValue(s) ELSE 0

\* datetime.strptime(s, "%Y<sep>%m<sep>%d")
strptime_date(s, sep) ==
  LET f == Fields(s, sep)
  IN IF Len(f) = 3 THEN DateOf(f[1], MonthNumber(f[2]), f[3]) ELSE NoDate

\* calendar.month_abbr and calendar.month_name, in lower case
MonthAbbr ==
  << << "j", "a", "n" >>,
     << "f", "e", "b" >>,
     << "m", "a", "r" >>,
     << "a", "p", "r" >>,
     << "m", "a", "y" >>,
     << "j", "u", "n" >>,
     << "j", "u", "l" >>,
     << "a", "u", "g" >>,
     << "s", "e", "p" >>,
     << "o", "c", "t" >>,
     << "n", "o", "v" >>,
     << "d", "e", "c" >> >>

MonthNames ==
  << << "j", "a", "n", "u", "a", "r", "y" >>,
     << "f", "e", "b", "r", "u", "a", "r", "y" >>,
     << "m", "a", "r", "c", "h" >>,
     << "a", "p", "r", "i", "l" >>,
     << "m", "a", "y" >>,
     << "j", "u", "n", "e" >>,
     << "j", "u", "l", "y" >>,
     << "a", "u", "g", "u", "s", "t" >>,
     << "s", "e", "p", "t", "e", "m", "b", "e", "r" >>,
     << "o", "c", "t", "o", "b", "e", "r" >>,
     << "n", "o", "v", "e", "m", "b", "e", "r" >>,
     << "d", "e", "c", "e", "m", "b", "e", "r" >> >>

\* %b and %B, which match without regard to case
MonthIndex(s, names) ==
  IF \E k \in 1..12 : names[k] = lower(s)
  THEN CHOOSE k \in 1..12 : names[k] = lower(s) ELSE 0

\* s without the character ch at its end, << >> where it does not end so
Before(s, ch) ==
  IF s # << >> /\ s[Len(s)] = ch THEN SubSeq(s, 1, Len(s) - 1) ELSE << >>

\* datetime.strptime(s, "%d %b %Y")
strptime_day_month_year(s) ==
  LET f == Fields(s, " ")
  IN IF Len(f) = 3 THEN DateOf(f[3], MonthIndex(f[2], MonthAbbr), f[1])
     ELSE NoDate

\* datetime.strptime(s, "%b %d, %Y") and, with the full names, "%B %d, %Y"
strptime_month_day_year(s, names) ==
  LET f == Fields(s, " ")
  IN IF Len(f) = 3
     THEN DateOf(f[3], MonthIndex(f[1], names), Before(f[2], ","))
     ELSE NoDate

\* datetime.strptime(s, "%Y nian %m yue %d ri"), the three Chinese
\* characters for year, month and day written as "nian", "yue" and "ri"
strptime_nian_yue_ri(s) ==
  LET y == Fields(s, "nian")
      m == IF Len(y) = 2 THEN Fields(y[2], "yue") ELSE << >>
  IN IF Len(m) = 2 THEN DateOf(y[1], MonthNumber(m[1]), Before(m[2], "ri"))
     ELSE NoDate

\* the second of the day "%H:%M:%S<tail>" reads from s, tail being "",
\* ".%f" or "Z"; -1 where it does not match
SecondOfDay(s, tail) ==
  LET f == Fields(s, ":")
      last == IF Len(f) = 3 THEN f[3] ELSE << >>
      frac == Fields(last, ".")
      sec == CASE tail = "" -> last
               [] tail = "Z" ->
                    IF last # << >> /\ last[Len(last)] = "Z"
                    THEN SubSeq(last, 1, Len(last) - 1) ELSE << >>
               [] tail = ".%f" ->
                    IF Len(frac) = 2 /\ IsField(frac[2], 1, 6, Nat)
                    THEN frac[1] ELSE << >>
  IN IF /\ Len(f) = 3
        /\ IsField(f[1], 1, 2, 0..23)
        /\ IsField(f[2], 1, 2, 0..59)
        /\ IsField(sec, 1, 2, 0..59)
     THEN DecimalValue(f[1]) * 3600 + DecimalValue(f[2]) * 60
            + DecimalValue(sec)
     ELSE -1

\* datetime.strptime(s, "%Y-%m-%d<mid>%H:%M:%S<tail>"), mid being "T" or " "
strptime_datetime(s, mid, tail) ==
  LET f == Fields(s, mid)
      date == IF Len(f) = 2 THEN strptime_date(f[1], "-") ELSE NoDate
      second == IF Len(f) = 2 THEN SecondOfDay(f[2], tail) ELSE -1
  IN IF date.ok /\ second >= 0 THEN datetime(date.ordinal, second)
     ELSE NoDate

RECURSIVE FirstParsed(_)
\* the loop over formats: the first result that is no ValueError
FirstParsed(tries) ==
  IF tries = << >> THEN NoDate
  ELSE IF Head(tries).ok THEN Head(tries) ELSE FirstParsed(Tail(tries))

\* the tokens of s that satisfy Test, s split at blanks after its commas
\* are taken out
Tokens(s, Test(_)) ==
  LET words == Fields(SelectSeq(s, LAMBDA c : c # ","), " ")
  IN SelectSeq(words, Test)

\* lines 213-217: dateutil.parser.parse(s, fuzzy=True) inside `except
\* Exception`.  Without the package the import raises and the result is
\* None.  With it, text of the form "[weekday,] day month year [time]
\* [GMT|UTC]" gives that date, aware when the zone is named, and text in
\* which no day, month or year is found raises ParserError.
dateutil_parse(s) ==
  LET days == Tokens(s, LAMBDA w : IsField(w, 1, 2, 1..31))
      months == Tokens(s, LAMBDA w : MonthIndex(w, MonthAbbr) > 0
                                       \/ MonthIndex(w, MonthNames) > 0)
      years == Tokens(s, LAMBDA w : IsField(w, 4, 4, 1..9999))
      times == Tokens(s, LAMBDA w : SecondOfDay(w, "") >= 0)
      zones == Tokens(s, LAMBDA w : lower(w) \in {<< "g", "m", "t" >>,
                                                  << "u", "t", "c" >>})
      date == IF Len(days) = 1 /\ Len(months) = 1 /\ Len(years) = 1
              THEN DateOf(years[1],
                          max(MonthIndex(months[1], MonthAbbr),
                              MonthIndex(months[1], MonthNames)),
                          days[1])
              ELSE NoDate
  IN IF dateutil_available /\ date.ok
     THEN [date EXCEPT
             !.second = IF times = << >> THEN 0
                        ELSE SecondOfDay(times[1], ""),
             !.aware = zones # << >>]
     ELSE NoDate

\* CurationCommander._parse_article_date
_parse_article_date(date_str) ==
  IF date_str = << >> \/ Len(strip(date_str)) < 4 THEN NoDate
  ELSE LET s == strip(date_str)
       IN FirstParsed(<< strptime_date(s, "-"),
                         strptime_datetime(s, "T", ""),
                         strptime_datetime(s, "T", ".%f"),
                         strptime_datetime(s, "T", "Z"),
                         strptime_datetime(s, " ", ""),
                         strptime_date(s, "/"),
                         strptime_day_month_year(s),
                         strptime_month_day_year(s, MonthAbbr),
                         strptime_month_day_year(s, MonthNames),
                         strptime_nian_yue_ri(s),
                         strptime_date(SubSeq(s, 1, min(10, Len(s))), "-"),
                         dateutil_parse(s)
                      >>)

\* datetime >= datetime for two naive datetimes
NotBefore_Strict(a, b) ==
  a.ordinal > b.ordinal \/ (a.ordinal = b.ordinal /\ a.second > b.second)

NotBefore(a, b) ==
  a.ordinal > b.ordinal \/ (a.ordinal = b.ordinal /\ a.second >= b.second)

\* the clock: datetime.utcnow() and its strftime("%Y-%m-%d")
Today == << "2", "0", "2", "4", "-", "0", "5", "-", "0", "4" >>

utcnow == datetime(strptime_date(Today, "-").ordinal, 3600)

\* lines 163-166: the date the article is judged by
ArticleDate(art) ==
  LET published == _parse_article_date(art.published_date)
  IN IF published.ok THEN published
     ELSE _parse_article_date(art.collected_at)

\* lines 167-173: the article is kept
IsFresh(art, cutoff) ==
  ~ArticleDate(art).ok \/ NotBefore(ArticleDate(art), cutoff)

\* lines 155-158: ref_date, a naive datetime
RefDate(date) ==
  LET parsed == strptime_date(date, "-")
  IN IF parsed.ok THEN parsed ELSE utcnow

\* line 160: cutoff
Cutoff(date) == [RefDate(date) EXCEPT !.ordinal = @ - FRESHNESS_DAYS]

\* line 172: `article_date >= cutoff` raises TypeError for an aware
\* article_date, and nothing in the filter or in execute catches it
FreshnessRaises(list) ==
  \E k \in 1..Len(list) :
     ArticleDate(list[k]).ok /\ ArticleDate(list[k]).aware

\* CurationCommander._filter_by_freshness where it returns
_filter_by_freshness(list, date) ==
  SelectSeq(list, LAMBDA art : IsFresh(art, Cutoff(date)))

(* ----------------------------------------------------------- the database *)
\* RawArticle.id and what `raw_art.id or 0` makes of it: the set is empty
\* for None
None == {}

Or0(id) == IF id = None THEN 0 ELSE CHOOSE n \in id : TRUE

\* AUTOINCREMENT: one more than the largest id of the table
NextId(table) ==
  IF table = << >> THEN 1 ELSE table[Len(table)].id + 1

\* INSERT OR IGNORE INTO raw_articles: a row that repeats the url and
\* collected_at of a stored row is left out (UNIQUE(url, collected_at))
InsertOrIgnore(table, article) ==
  IF \E k \in 1..Len(table) :
       /\ table[k].article.url = article.url
       /\ table[k].article.collected_at = article.collected_at
  THEN table
  ELSE Append(table, [id |-> NextId(table), article |-> article])

RECURSIVE insert_raw_articles_batch(_, _)
\* DatabaseStore.insert_raw_articles_batch: the table afterwards; the
\* articles of the list are not written to
insert_raw_articles_batch(table, list) ==
  IF list = << >> THEN table
  ELSE insert_raw_articles_batch(InsertOrIgnore(table, Head(list)),
                                 Tail(list))

RECURSIVE insert_curated_articles_batch(_, _)
\* DatabaseStore.insert_curated_articles_batch: the table afterwards
insert_curated_articles_batch(table, list) ==
  IF list = << >> THEN table
  ELSE insert_curated_articles_batch(
         Append(table, [id |-> NextId(table), article |-> Head(list)]),
         Tail(list))

\* lines 102-115: the CuratedArticle of one scored article (summary_zh and
\* curated_at are left out)
CuratedArticle_AboveThreshold(triple, date) ==
  LET raw_art == triple[1]
  IN [raw_article_id |-> Or0(raw_art.id),
      title_zh |-> raw_art.title,
      category |-> triple[2],
      importance_score |-> triple[3],
      is_selected_for_report |-> triple[3] > MIN_IMPORTANCE_FOR_REPORT,
      source_name |-> raw_art.source_name,
      source_url |-> raw_art.url,
      published_date |-> raw_art.published_date,
      report_date |-> date]

CuratedArticle(triple, date) ==
  LET raw_art == triple[1]
  IN [raw_article_id |-> Or0(raw_art.id),
      title_zh |-> raw_art.title,
      category |-> triple[2],
      importance_score |-> triple[3],
      is_selected_for_report |-> triple[3] >= MIN_IMPORTANCE_FOR_REPORT,
      source_name |-> raw_art.source_name,
      source_url |-> raw_art.url,
      published_date |-> raw_art.published_date,
      report_date |-> date]

(* ------------------------------------------------ the articles of the run *)
DayOfReport == << "2", "0", "2", "4", "-", "0", "5", "-", "0", "3" >>

DayOfCutoff == << "2", "0", "2", "4", "-", "0", "5", "-", "0", "1" >>

DayBeforeCutoff == << "2", "0", "2", "4", "-", "0", "4", "-", "3", "0" >>

\* datetime.utcnow().isoformat() of the collection
CollectedAt ==
  << "2", "0", "2", "4", "-", "0", "5", "-", "0", "3", "T", "0", "8", ":",
     "0", "0", ":", "0", "0", ".", "1", "2", "3", "4", "5", "6" >>

\* the RawArticle a collector builds (http_collector.py lines 126-136): no
\* id, the hash of title and url, the date the page gives and the time of
\* the collection
CollectedArticle(news, title, url, published_date) ==
  [id |-> None, published_date |-> published_date,
   collected_at |-> CollectedAt]
    @@ RawArticle(title, url) @@ news

RawArticles ==
  { CollectedArticle(NewsItem("OpenAI", "AI labs", {"launch", "gpt"},
                              {"altman", "billion"}),
                     TitleABCD, UrlOf(UrlPlain), DayOfReport),
    CollectedArticle(NewsItem("NIST", "US policy sources",
                              {"regulation", "act"}, {}),
                     TitleABCDE, UrlOf(UrlOther), DayOfCutoff),
    CollectedArticle(NewsItem("Stanford HAI", "universities",
                              {"research", "paper"}, {"llm", "huang"}),
                     TitleXYZ, UrlOf(UrlUpper), << >>),
    CollectedArticle(NewsItem("TechCrunch", "tech media", {}, {}),
                     TitleABCE, UrlOf(UrlId), DayBeforeCutoff) }

ReportDates == {<< >>, DayOfReport}

(* ---------------------------------------------------------- execute's run *)
CurateInit ==
  /\ CollectionIdle
  /\ FetchIdle
  /\ DailyIdle
  /\ DedupIdle
  /\ or_pc = "idle"
  /\ llm_available \in BOOLEAN
  /\ batch = << >>
  /\ response = << >>
  /\ result_dicts = << >>
  /\ curator_results = << >>
  /\ cu_pc = "input"
  /\ report_date \in ReportDates
  /\ raw_articles = << >>
  /\ raw_articles_table = << >>
  /\ deduped = << >>
  /\ fresh = << >>
  /\ filtered = << >>
  /\ classified = << >>
  /\ scored = << >>
  /\ curated_articles = << >>
  /\ curated_articles_table = << >>
  /\ selected_articles = << >>
  /\ dateutil_available \in BOOLEAN

\* one more article is in the list execute will be called with
Gather(a) ==
  /\ cu_pc = "input"
  /\ Len(raw_articles) < MaxBatch
  /\ raw_articles' = Append(raw_articles, a)
  /\ UNCHANGED << cu_pc, report_date, raw_articles_table, deduped, fresh,
                  filtered, classified, scored, curated_articles,
                  curated_articles_table, selected_articles,
                  dateutil_available, dedup_vars, oracle_vars, collection_vars, daily_vars,
                  fetch_vars >>

\* lines 60-75: execute is called, the raw articles are stored
StoreRaw ==
  /\ cu_pc = "input"
  /\ report_date' = IF report_date = << >> THEN Today ELSE report_date
  /\ raw_articles_table' =
       insert_raw_articles_batch(raw_articles_table, raw_articles)
  /\ cu_pc' = "stored"
  /\ UNCHANGED << raw_articles, deduped, fresh, filtered, classified,
                  scored, curated_articles, curated_articles_table,
                  selected_articles,
                  dateutil_available, dedup_vars, oracle_vars,
                  collection_vars, daily_vars,
                  fetch_vars >>

\* lines 77-80
DedupStep ==
  /\ cu_pc = "stored"
  /\ deduped' = deduplicate(raw_articles)
  /\ cu_pc' = "deduped"
  /\ UNCHANGED << report_date, raw_articles, raw_articles_table, fresh,
                  filtered, classified, scored, curated_articles,
                  curated_articles_table, selected_articles,
                  dateutil_available, dedup_vars, oracle_vars, collection_vars, daily_vars,
                  fetch_vars >>

\* lines 82-85; execute ends where the filter raises
FreshnessStep ==
  /\ cu_pc = "deduped"
  /\ IF FreshnessRaises(deduped)
     THEN cu_pc' = "raised" /\ fresh' = fresh
     ELSE /\ fresh' = _filter_by_freshness(deduped, report_date)
          /\ cu_pc' = "fresh"
  /\ UNCHANGED << report_date, raw_articles, raw_articles_table, deduped,
                  filtered, classified, scored, curated_articles,
                  curated_articles_table, selected_articles,
                  dateutil_available, dedup_vars, oracle_vars, collection_vars, daily_vars,
                  fetch_vars >>

\* lines 87-90
FilterStep(lines) ==
  /\ cu_pc = "fresh"
  /\ ChatReturns(fresh, lines)
  /\ filtered' = filter_articles(fresh, llm_available, lines)
  /\ cu_pc' = "filtered"
  /\ UNCHANGED << report_date, raw_articles, raw_articles_table, deduped,
                  fresh, classified, scored, curated_articles,
                  curated_articles_table, selected_articles,
                  dateutil_available, dedup_vars, oracle_vars, collection_vars, daily_vars,
                  fetch_vars >>

\* lines 92-95
ClassifyStep(lines) ==
  /\ cu_pc = "filtered"
  /\ ChatReturns(filtered, lines)
  /\ classified' = classify_articles(filtered, llm_available, lines)
  /\ cu_pc' = "classified"
  /\ UNCHANGED << report_date, raw_articles, raw_articles_table, deduped,
                  fresh, filtered, scored, curated_articles,
                  curated_articles_table, selected_articles,
                  dateutil_available, dedup_vars, oracle_vars, collection_vars, daily_vars,
                  fetch_vars >>

\* lines 97-99
ScoreStep(lines) ==
  /\ cu_pc = "classified"
  /\ ChatReturns(classified, lines)
  /\ scored' = score_articles(classified, llm_available, lines)
  /\ cu_pc' = "scored"
  /\ UNCHANGED << report_date, raw_articles, raw_articles_table, deduped,
                  fresh, filtered, classified, curated_articles,
                  curated_articles_table, selected_articles,
                  dateutil_available, dedup_vars, oracle_vars, collection_vars, daily_vars,
                  fetch_vars >>

\* lines 101-142: the CuratedArticles are built and stored, the selected
\* ones returned
StoreCurated ==
  /\ cu_pc = "scored"
  /\ LET built == [i \in 1..Len(scored) |->
                     CuratedArticle(scored[i], report_date)]
     IN /\ curated_articles' = built
        /\ curated_articles_table' =
             insert_curated_articles_batch(curated_articles_table, built)
        /\ selected_articles' =
             SelectSeq(built, LAMBDA a : a.is_selected_for_report)
  /\ cu_pc' = "done"
  /\ UNCHANGED << report_date, raw_articles, raw_articles_table, deduped,
                  fresh, filtered, classified, scored, dateutil_available,
                  dedup_vars, oracle_vars, collection_vars, daily_vars,
                  fetch_vars >>

CurateNext ==
  \/ \E a \in RawArticles : Gather(a)
  \/ StoreRaw
  \/ DedupStep
  \/ FreshnessStep
  \/ \E lines \in Responses(RelevanceLines) : FilterStep(lines)
  \/ \E lines \in Responses(ClassificationLines) : ClassifyStep(lines)
  \/ \E lines \in Responses(ScoreLines) : ScoreStep(lines)
  \/ StoreCurated

SpecCurate == CurateInit /\ [][CurateNext]_vars

(* -------------------------------------------------------------- claim C20 *)
\* the rows of raw_articles whose id is the raw_article_id of curated
ReferencedRows(curated) ==
  {k \in 1..Len(raw_articles_table) :
     raw_articles_table[k].id = curated.raw_article_id}

\* C20: every CuratedArticle execute produces references exactly one
\* RawArticle that survived deduplication, the one it was built from, and
\* no two CuratedArticles of a run reference the same RawArticle.
C20_OneToOne ==
  cu_pc = "done" =>
    /\ \A i \in 1..Len(curated_articles) :
         /\ Cardinality(ReferencedRows(curated_articles[i])) = 1
         /\ \A k \in ReferencedRows(curated_articles[i]) :
              /\ raw_articles_table[k].article = scored[i][1]
              /\ \E j \in 1..Len(deduped) :
                   deduped[j] = raw_articles_table[k].article
    /\ \A i, j \in 1..Len(curated_articles) :
         i # j =>
           curated_articles[i].raw_article_id
             # curated_articles[j].raw_article_id

(***************************************************************************)
(* The freshness filter on its own: _filter_by_freshness is called with a  *)
(* list of articles whose two dates are drawn from the strings below.      *)
(***************************************************************************)
MaxDated == 1

\* published_date as the extractor gives it: the forms of the ten formats,
\* a timestamp with an offset, an RFC 822 date, padding, and text without a
\* date
PublishedDates ==
  { << "2", "0", "2", "4", "-", "0", "5", "-", "0", "1" >>,
    << "2", "0", "2", "4", "-", "0", "4", "-", "3", "0" >>,
    << "2", "0", "2", "4", "-", "0", "2", "-", "2", "9" >>,
    << "2", "0", "2", "4", "-", "0", "2", "-", "2", "8" >>,
    << "2", "0", "2", "4", "-", "0", "5", "-", "0", "2", "T", "0", "1",
        ":", "0", "0", ":", "0", "0" >>,
    << "2", "0", "2", "4", "-", "0", "5", "-", "0", "1", "T", "0", "1",
        ":", "0", "0", ":", "0", "0" >>,
    << "2", "0", "2", "4", "/", "0", "5", "/", "0", "1" >>,
    << "0", "1", " ", "M", "a", "y", " ", "2", "0", "2", "4" >>,
    << "A", "p", "r", " ", "3", "0", ",", " ", "2", "0", "2", "4" >>,
    << "A", "p", "r", "i", "l", " ", "3", "0", ",", " ", "2", "0", "2",
        "4" >>,
    << "2", "0", "2", "4", "nian", "5", "yue", "1", "ri" >>,
    << "2", "0", "2", "4", "-", "0", "5", "-", "0", "1", "T", "0", "0",
        ":", "0", "0", ":", "0", "0", "Z" >>,
    << "2", "0", "2", "4", "-", "0", "4", "-", "3", "0", "T", "2", "3",
        ":", "5", "9", ":", "5", "9", "+", "0", "8", ":", "0", "0" >>,
    << >>,
    << " ", "2", "0", "2", "4", "-", "0", "5", "-", "0", "1", " " >>,
    << "s", "o", "o", "n" >>,
    << "n", "/", "a" >>,
    << "W", "e", "d", ",", " ", "0", "1", " ", "M", "a", "y", " ", "2",
        "0", "2", "4", " ", "0", "0", ":", "0", "0", ":", "0", "0",
        " ", "G", "M", "T" >> }

\* collected_at: the collection's timestamp, an older one, and no date
CollectedDates ==
  { CollectedAt,
    << "2", "0", "2", "4", "-", "0", "4", "-", "2", "9", "T", "0", "8",
        ":", "0", "0", ":", "0", "0" >>,
    << "u", "n", "k", "n", "o", "w", "n" >> }

\* report_date: two dates and a string that is not "%Y-%m-%d"
FreshReportDates ==
  { DayOfReport,
    << "2", "0", "2", "4", "-", "0", "3", "-", "0", "2" >>,
    << "2", "0", "2", "4", "/", "0", "5", "/", "0", "3" >> }


FreshInit ==
  /\ CollectionIdle
  /\ FetchIdle
  /\ DailyIdle
  /\ DedupIdle
  /\ OracleIdle
  /\ cu_pc = "deduped"
  /\ report_date \in FreshReportDates
  /\ dateutil_available \in BOOLEAN
  /\ raw_articles = << >>
  /\ raw_articles_table = << >>
  /\ deduped = << >>
  /\ fresh = << >>
  /\ filtered = << >>
  /\ classified = << >>
  /\ scored = << >>
  /\ curated_articles = << >>
  /\ curated_articles_table = << >>
  /\ selected_articles = << >>

\* one more article is in the list the filter will be called with
Dated(published_date, collected_at) ==
  /\ cu_pc = "deduped"
  /\ Len(deduped) < MaxDated
  /\ deduped' = Append(deduped, [published_date |-> published_date,
                                 collected_at |-> collected_at])
  /\ UNCHANGED << cu_pc, report_date, raw_articles, raw_articles_table,
                  fresh, filtered, classified, scored, curated_articles,
                  curated_articles_table, selected_articles,
                  dateutil_available, dedup_vars, oracle_vars,
                  collection_vars, daily_vars,
                  fetch_vars >>

FreshNext ==
  \/ \E p \in PublishedDates, c \in CollectedDates : Dated(p, c)
  \/ FreshnessStep

SpecFresh == FreshInit /\ [][FreshNext]_vars

(* -------------------------------------------------------- claims C21, C22 *)
\* the article at position k of deduped is in the filter's result
Kept(k) == \E j \in 1..Len(fresh) : fresh[j] = deduped[k]

\* the days and seconds from the date the article at position k is judged
\* by to the reference date
DaysOld(k) == RefDate(report_date).ordinal - ArticleDate(deduped[k]).ordinal

SecondsOld(k) == RefDate(report_date).second - ArticleDate(deduped[k]).second

C22_UnparseableKept ==
  /\ cu_pc # "raised"
  /\ cu_pc = "fresh" =>
       \A k \in 1..Len(deduped) :
          LET collected == _parse_article_date(deduped[k].collected_at)
          IN ~_parse_article_date(deduped[k].published_date).ok =>
               /\ collected.ok =>
                    (Kept(k) <=> NotBefore(collected, Cutoff(report_date)))
               /\ ~collected.ok => Kept(k)

(* -------------------------------------------------------------- claim C23 *)
\* C23: a CuratedArticle is flagged selected exactly when its final score
\* is at least MIN_IMPORTANCE_FOR_REPORT; execute returns exactly the
\* selected CuratedArticles, in pipeline order; and every CuratedArticle,
\* selected or not, is stored.
C23_SelectedReturned ==
  cu_pc = "done" =>
    /\ Len(curated_articles) = Len(scored)
    /\ \A i \in 1..Len(curated_articles) :
         /\ curated_articles[i].importance_score = scored[i][3]
         /\ curated_articles[i].source_url = scored[i][1].url
         /\ curated_articles[i].is_selected_for_report
              <=> scored[i][3] >= MIN_IMPORTANCE_FOR_REPORT
    /\ selected_articles =
         SelectSeq(curated_articles,
                   LAMBDA a : a.importance_score >= MIN_IMPORTANCE_FOR_REPORT)
    /\ curated_articles =
         [k \in 1..Len(curated_articles_table) |->
            curated_articles_table[k].article]

\* a run that curated two articles, one of which it returned
C23_Witness ==
  /\ cu_pc = "done"
  /\ Len(curated_articles) = 2
  /\ Len(selected_articles) = 1

(***************************************************************************)
(* The daily run: run_daily collects, returns at once when nothing was     *)
(* collected, curates, and has the daily report built from the selected    *)
(* articles.  The collection is the list it returns and its statistics.    *)
(***************************************************************************)
DailyInit ==
  /\ CollectionIdle
  /\ FetchIdle
  /\ DedupIdle
  /\ or_pc = "idle"
  /\ llm_available \in BOOLEAN
  /\ batch = << >>
  /\ response = << >>
  /\ result_dicts = << >>
  /\ curator_results = << >>
  /\ cu_pc = "input"
  /\ report_date \in {DayOfReport, Today}
  /\ dateutil_available \in BOOLEAN
  /\ raw_articles = << >>
  /\ raw_articles_table = << >>
  /\ deduped = << >>
  /\ fresh = << >>
  /\ filtered = << >>
  /\ classified = << >>
  /\ scored = << >>
  /\ curated_articles = << >>
  /\ curated_articles_table = << >>
  /\ selected_articles = << >>
  /\ rd_pc = "collection"
  /\ collection_stats = << >>
  /\ daily_files = {}

\* lines 60-66: CollectionCommander.execute returns raw_articles, with or
\* without failed sources; run_daily returns when the list is empty
CollectionReturns(failed) ==
  /\ rd_pc = "collection"
  /\ collection_stats' = [failed_sources |-> failed]
  /\ rd_pc' = IF raw_articles = << >> THEN "returned" ELSE "curation"
  /\ UNCHANGED << daily_files, dedup_vars, oracle_vars, curate_vars,
                  collection_vars, fetch_vars >>

\* lines 76-107: PresentationCommander.execute_daily; DailyReportBuilder.build
\* writes daily/<report_date>.html
ExecuteDaily ==
  /\ rd_pc = "curation"
  /\ cu_pc = "done"
  /\ daily_files' =
       daily_files \cup {[report_date |-> report_date,
                         article_count |-> Len(selected_articles),
                         collection_stats |-> collection_stats]}
  /\ rd_pc' = "done"
  /\ UNCHANGED << collection_stats, dedup_vars, oracle_vars, curate_vars,
                  collection_vars, fetch_vars >>

DailyNext ==
  \/ rd_pc = "collection" /\ \E a \in RawArticles : Gather(a)
  \/ \E failed \in 0..1 : CollectionReturns(failed)
  \/ rd_pc = "curation" /\ StoreRaw
  \/ rd_pc = "curation" /\ DedupStep
  \/ rd_pc = "curation" /\ FreshnessStep
  \/ rd_pc = "curation"
       /\ \E lines \in Responses(RelevanceLines) : FilterStep(lines)
  \/ rd_pc = "curation"
       /\ \E lines \in Responses(ClassificationLines) : ClassifyStep(lines)
  \/ rd_pc = "curation"
       /\ \E lines \in Responses(ScoreLines) : ScoreStep(lines)
  \/ rd_pc = "curation" /\ StoreCurated
  \/ ExecuteDaily

SpecDaily == DailyInit /\ [][DailyNext]_vars

(* -------------------------------------------------------------- claim C24 *)
\* C24: a daily run always ends with a report file for its date, also
\* when sources failed and also when nothing at all was collected.
C24_AlwaysReport ==
  rd_pc \in {"returned", "done"} =>
    \E f \in daily_files : f.report_date = report_date

(***************************************************************************)
(* One collector's collect(source): the URLs of the source are taken one   *)
(* after another, each one fetched by the collector's retry loop           *)
(* (HttpCollector._fetch_url, BrowserCollector._fetch_page), the page      *)
(* handed to the extraction, and the browser's screenshot to OCR.          *)
(***************************************************************************)
MaxUrls == 2

MAX_RETRIES == 3

RETRY_BACKOFF == 2

RECURSIVE Power(_, _)
\* base ** exponent
Power(base, exponent) ==
  IF exponent = 0 THEN 1 ELSE base * Power(base, exponent - 1)

\* url.strip().rstrip(";")
CleanUrl(url) == rstrip_char(strip(url), ";")

\* a declared URL that is blank once cleaned, and one that ends in ";"
BlankUrl == << " ", ";" >>
UrlSemicolon == UrlOf(UrlOther) \o << ";", " " >>

DeclaredUrls ==
  UNION {[1..n -> {UrlOf(UrlPlain), UrlSemicolon, BlankUrl}] : n \in 1..MaxUrls}

\* BrowserCollector._check_if_blocked, block_indicators
block_indicators ==
  { "access denied", "403 forbidden", "captcha", "cloudflare",
    "please verify you are human", "bot detection", "automated access",
    "rate limited", "too many requests", "please enable javascript",
    "challenge-platform" }

\* `not html`
Falsy(html) == html.none \/ html.len = 0

\* BrowserCollector._check_if_blocked: no page, or fewer than 200
\* characters of text, or two of the block indicators
_check_if_blocked(html) ==
  \/ Falsy(html)
  \/ html.text_content < 200
  \/ Cardinality({ind \in block_indicators : ind \in html.matched}) >= 2

\* the pages a fetch may bring: the empty page, a short and a long page
\* without a block indicator, with one, and a long page with two
Pages ==
  { Html(0, 0, {}),
    Html(260, 199, {}),
    Html(261, 200, {}),
    Html(260, 199, {"captcha"}),
    Html(261, 200, {"captcha"}),
    Html(261, 200, {"captcha", "cloudflare"}) }

\* HTTP status codes raise_for_status raises for
ErrorCodes == {403, 429, 404}

\* the texts a good response may carry: the empty text and a page
HttpTexts == {Html(0, 0, {}), Html(261, 200, {})}

\* len(text.strip()) of the text OCR reads from a screenshot
OcrLengths == {0, 49, 50}

\* the name of the source being collected
SourceName == << "S" >>

\* an entry of `trace`: what happened at which URL in which attempt;
\* n is the status code, the wait in seconds, or the length of the OCR
\* text (-1: OCR was not called); html is the page the fetch saw
Event(ev, n, html) ==
  [ev |-> ev, url |-> url_index, attempt |-> attempt, n |-> n, html |-> html]

FetchInit ==
  /\ CollectionIdle
  /\ DedupIdle
  /\ OracleIdle
  /\ CurateIdle
  /\ DailyIdle
  /\ fc_pc = "start"
  /\ collector_kind \in {"http", "browser"}
  /\ source_urls \in DeclaredUrls
  /\ url_index = 0
  /\ attempt = 0
  /\ page = NoHtml
  /\ screenshot = FALSE
  /\ source_articles = << >>
  /\ trace = << >>
  /\ pytesseract_available \in BOOLEAN

\* the next index of `for url in source.urls` whose URL is not blank
\* (`if not url: continue`), Len + 1 when the loop is over
NextIndex(i) ==
  LET later == {j \in (i + 1)..Len(source_urls) :
                  CleanUrl(source_urls[j]) # << >>}
  IN IF later = {} THEN Len(source_urls) + 1
     ELSE CHOOSE j \in later : \A m \in later : j <= m

\* collect goes on to the fetch of its next URL, or returns all_articles
NextFetch(arts, tr) ==
  /\ url_index' = NextIndex(url_index)
  /\ fc_pc' = IF NextIndex(url_index) > Len(source_urls)
              THEN "returned" ELSE "attempt"
  /\ attempt' = 0
  /\ source_articles' = arts
  /\ trace' = tr

\* extract_articles_from_html found k entries with a title
ExtractedFrom(k) ==
  [e \in 1..k |-> RawArticle(TitleABCD, CleanUrl(source_urls[url_index]))]

CollectStart ==
  /\ fc_pc = "start"
  /\ NextFetch(<< >>, << >>)
  /\ UNCHANGED << collector_kind, source_urls, page, screenshot,
                  pytesseract_available, dedup_vars, oracle_vars,
                  curate_vars, daily_vars, collection_vars >>

(* ---------------------------------------------- HttpCollector._fetch_url *)
\* lines 71-73 and collect 113-141: the response is good and its text is
\* returned; collect skips the URL when the text is empty, else it
\* extracts k entries and sleeps
HttpReturns(html, k) ==
  /\ fc_pc = "attempt"
  /\ collector_kind = "http"
  /\ page' = html
  /\ IF Falsy(html)
     THEN NextFetch(source_articles, Append(trace, Event("ok", -1, html)))
     ELSE /\ fc_pc' = "delay"
          /\ source_articles' = source_articles \o ExtractedFrom(k)
          /\ trace' = Append(trace, Event("ok", -1, html))
          /\ UNCHANGED << url_index, attempt >>
  /\ UNCHANGED << collector_kind, source_urls, screenshot,
                  pytesseract_available, dedup_vars, oracle_vars,
                  curate_vars, daily_vars, collection_vars >>

\* lines 74-85: HTTPStatusError; 403 and 429 sleep and go round the loop,
\* any other status returns None at once and collect skips the URL
HttpStatusError(code) ==
  /\ fc_pc = "attempt"
  /\ collector_kind = "http"
  /\ IF code \in {403, 429}
     THEN /\ fc_pc' = "backoff"
          /\ trace' = Append(trace, Event("status", code, NoHtml))
          /\ UNCHANGED << url_index, attempt, source_articles, page >>
     ELSE /\ page' = NoHtml
          /\ NextFetch(source_articles,
                       Append(trace, Event("status", code, NoHtml)))
  /\ UNCHANGED << collector_kind, source_urls, screenshot,
                  pytesseract_available, dedup_vars, oracle_vars,
                  curate_vars, daily_vars, collection_vars >>

\* lines 86-93: ConnectError, ReadTimeout, ConnectTimeout sleep and go
\* round the loop
HttpConnectError ==
  /\ fc_pc = "attempt"
  /\ collector_kind = "http"
  /\ fc_pc' = "backoff"
  /\ trace' = Append(trace, Event("connect", 0, NoHtml))
  /\ UNCHANGED << collector_kind, source_urls, url_index, attempt, page,
                  screenshot, source_articles, pytesseract_available,
                  dedup_vars, oracle_vars, curate_vars, daily_vars,
                  collection_vars >>

\* lines 94-96: any other exception returns None at once
HttpException ==
  /\ fc_pc = "attempt"
  /\ collector_kind = "http"
  /\ page' = NoHtml
  /\ NextFetch(source_articles, Append(trace, Event("exception", 0, NoHtml)))
  /\ UNCHANGED << collector_kind, source_urls, screenshot,
                  pytesseract_available, dedup_vars, oracle_vars,
                  curate_vars, daily_vars, collection_vars >>

\* `await asyncio.sleep(wait)` of a retry loop is over, wait being
\* RETRY_BACKOFF ** (attempt + 1) (plus one to three seconds after a 403
\* or 429): the next attempt, or, the range of _fetch_url used up, the
\* error is logged, None returned and the URL skipped by collect
BackoffDone ==
  /\ fc_pc = "backoff"
  /\ LET tr == Append(trace, Event("backoff",
                                   Power(RETRY_BACKOFF, attempt + 1), NoHtml))
     IN IF attempt + 1 < MAX_RETRIES
        THEN /\ attempt' = attempt + 1
             /\ fc_pc' = "attempt"
             /\ trace' = tr
             /\ UNCHANGED << url_index, source_articles, page >>
        ELSE /\ page' = NoHtml
             /\ NextFetch(source_articles,
                          Append(tr, Event("exhausted", 0, NoHtml)))
  /\ UNCHANGED << collector_kind, source_urls, screenshot,
                  pytesseract_available, dedup_vars, oracle_vars,
                  curate_vars, daily_vars, collection_vars >>

(* -------------------------------------------- BrowserCollector._fetch_page *)
\* _basic_screenshot_extract: the one entry that asks for manual handling
_basic_screenshot_extract ==
  << RawArticle(PlaceholderTitle(SourceName),
                CleanUrl(source_urls[url_index])) >>

\* _ocr_extract_articles on a screenshot whose OCR text has text_len
\* characters and n lines that pass for titles: without pytesseract the
\* entry of _basic_screenshot_extract, with it nothing for a text of
\* fewer than 50 characters and the entries of _parse_ocr_text otherwise
_ocr_extract_articles(text_len, n) ==
  IF ~pytesseract_available THEN _basic_screenshot_extract
  ELSE IF text_len < 50 THEN << >>
  ELSE [e \in 1..n |-> RawArticle(TitleXYZ, CleanUrl(source_urls[url_index]))]

\* lines 146-184 and collect 434-467: the page is rendered; a page judged
\* blocked is returned as (None, screenshot), any other as
\* (html, screenshot), after this one attempt.  collect extracts k entries
\* from the html, falls back on OCR when it has none, and sleeps.
BrowserReturns(html, k, text_len, n) ==
  /\ fc_pc = "attempt"
  /\ collector_kind = "browser"
  /\ LET is_blocked == _check_if_blocked(html)
         returned == IF is_blocked THEN NoHtml ELSE html
         extracted == IF Falsy(returned) THEN << >> ELSE ExtractedFrom(k)
     IN /\ page' = returned
        /\ screenshot' = TRUE
        /\ source_articles' =
             source_articles \o
               (IF extracted = << >> THEN _ocr_extract_articles(text_len, n)
                ELSE extracted)
        /\ trace' =
             Append(trace,
                    Event(IF is_blocked THEN "blocked" ELSE "ok",
                          IF extracted = << >> THEN text_len ELSE -1, html))
  /\ fc_pc' = "delay"
  /\ UNCHANGED << collector_kind, source_urls, url_index, attempt,
                  pytesseract_available, dedup_vars, oracle_vars,
                  curate_vars, daily_vars, collection_vars >>

\* lines 186-211: an exception of the rendering; the loop sleeps and goes
\* round, but after the last attempt it does not sleep: the error is
\* logged, (None, None) returned, and collect, with nothing to extract
\* and no screenshot, sleeps its politeness delay
BrowserException ==
  /\ fc_pc = "attempt"
  /\ collector_kind = "browser"
  /\ IF attempt < MAX_RETRIES - 1
     THEN /\ fc_pc' = "backoff"
          /\ trace' = Append(trace, Event("exception", 0, NoHtml))
          /\ UNCHANGED << page, screenshot >>
     ELSE /\ fc_pc' = "delay"
          /\ page' = NoHtml
          /\ screenshot' = FALSE
          /\ trace' = Append(Append(trace, Event("exception", 0, NoHtml)),
                             Event("exhausted", 0, NoHtml))
  /\ UNCHANGED << collector_kind, source_urls, url_index, attempt,
                  source_articles, pytesseract_available, dedup_vars,
                  oracle_vars, curate_vars, daily_vars, collection_vars >>

\* line 141: _ensure_browser raises when the browser cannot be launched;
\* the exception leaves _fetch_page and is logged by collect's `except`,
\* which goes on to the next URL without sleeping
EnsureBrowserRaises ==
  /\ fc_pc = "attempt"
  /\ collector_kind = "browser"
  /\ \A m \in 1..Len(trace) : trace[m].ev = "launch"
  /\ NextFetch(source_articles, Append(trace, Event("launch", 0, NoHtml)))
  /\ UNCHANGED << collector_kind, source_urls, page, screenshot,
                  pytesseract_available, dedup_vars, oracle_vars,
                  curate_vars, daily_vars, collection_vars >>

\* the politeness sleep at the end of collect's loop body is over
DelayDone ==
  /\ fc_pc = "delay"
  /\ NextFetch(source_articles, Append(trace, Event("delay", 0, NoHtml)))
  /\ UNCHANGED << collector_kind, source_urls, page, screenshot,
                  pytesseract_available, dedup_vars, oracle_vars,
                  curate_vars, daily_vars, collection_vars >>

FetchNext ==
  \/ CollectStart
  \/ \E html \in HttpTexts : \E k \in 0..1 : HttpReturns(html, k)
  \/ \E code \in ErrorCodes : HttpStatusError(code)
  \/ HttpConnectError
  \/ HttpException
  \/ BackoffDone
  \/ \E html \in Pages : \E k \in 0..1 : \E text_len \in OcrLengths :
       \E n \in 0..1 : BrowserReturns(html, k, text_len, n)
  \/ BrowserException
  \/ EnsureBrowserRaises
  \/ DelayDone

SpecFetch == FetchInit /\ [][FetchNext]_vars

(* -------------------------------------------------------------- claim C25 *)
\* the attempts of a fetch that end Blocked or Error
FailedAttempts == {"blocked", "status", "connect", "exception"}

\* C25: in both fetch strategies an attempt that ends Blocked or Error
\* before the MAX_RETRIES-th is followed by a backoff wait and by one more
\* attempt at the same URL, so that a URL fails for good only with its
\* MAX_RETRIES-th attempt; and no URL is attempted more than MAX_RETRIES
\* times.
C25_RetryUntilCap ==
  \A m \in 1..Len(trace) :
    /\ trace[m].attempt < MAX_RETRIES
    /\ (trace[m].ev \in FailedAttempts /\ trace[m].attempt + 1 < MAX_RETRIES)
         => IF m = Len(trace) THEN fc_pc = "backoff"
            ELSE /\ trace[m + 1].ev = "backoff"
                 /\ trace[m + 1].url = trace[m].url
                 /\ IF m + 1 = Len(trace)
                    THEN /\ fc_pc = "attempt"
                         /\ url_index = trace[m].url
                         /\ attempt = trace[m].attempt + 1
                    ELSE /\ trace[m + 2].url = trace[m].url
                         /\ trace[m + 2].attempt = trace[m].attempt + 1

(* -------------------------------------------------------------- claim C26 *)
\* the step in which a browser fetch returns a page judged blocked
BlockedFetch ==
  /\ Len(trace') = Len(trace) + 1
  /\ trace'[Len(trace')].ev = "blocked"

\* the length of the OCR text of the fetch that has just returned
\* (-1: OCR was not called)
OcrTextLen == trace'[Len(trace')].n

\* C26: when the browser's page is Blocked, a screenshot is taken and
\* handed to the OCR extraction all the same, and when the OCR text is too
\* short collect gets exactly one item for the URL, the placeholder that
\* asks for manual review.
C26_BlockedPlaceholder ==
  [][BlockedFetch =>
       /\ screenshot'
       /\ OcrTextLen >= 0
       /\ OcrTextLen < 50 =>
            source_articles' = source_articles \o _basic_screenshot_extract]_vars

(* -------------------------------------------------------------- claim C27 *)
\* the number of anti-bot indicators a page shows: a short body is one,
\* and every block phrase it contains is one
Indicators(html) ==
  (IF html.text_content < 200 THEN 1 ELSE 0)
    + Cardinality({ind \in block_indicators : ind \in html.matched})

\* C27: _check_if_blocked is true only of a page with at least two
\* indicators; a short body without a block phrase, or one block phrase
\* on a long page, is not judged blocked.
C27_TwoIndicators ==
  \A m \in 1..Len(trace) :
    trace[m].ev = "blocked" => Indicators(trace[m].html) >= 2

(* -------------------------------------------------------------- claim C28 *)
\* C28: the URLs of a source are fetched one at a time in the declared
\* order, and collect sleeps its politeness delay between the fetch of
\* one URL and the fetch of the next, after a fetch that failed as after
\* one that succeeded.
C28_PoliteInOrder ==
  \A m \in 1..Len(trace) :
    IF m < Len(trace)
    THEN /\ trace[m].url <= trace[m + 1].url
         /\ trace[m].url < trace[m + 1].url => trace[m].ev = "delay"
    ELSE (fc_pc = "attempt" /\ trace[m].url < url_index)
           => trace[m].ev = "delay"

(***************************************************************************)
(* Claims about the whole collection, checked in Spec.                     *)
(***************************************************************************)
(* -------------------------------------------------------------- claim C30 *)
\* the source-tasks of the passes that have returned before pass p
TasksBefore(p) ==
  (IF p > 1 THEN Len(PassSources(1)) ELSE 0)
    + (IF p > 2 THEN Len(PassSources(2)) ELSE 0)

\* the source-tasks of the running pass that have returned or raised
Counted == {n \in PassTasks : task[n].st \in {"done", "raised"}}

\* C30: every source-task of every pass adds one to exactly one of
\* success_sources and failed_sources, once; so while a pass runs the two
\* add up to the tasks that have ended so far, and when execute has
\* returned they add up to the HTTP-declared and browser-declared sources
\* plus fallback_sources.
C30_EveryTaskCounted ==
  /\ pc = "gather" =>
       stats.success_sources + stats.failed_sources
         = TasksBefore(pass) + Cardinality(Counted)
  /\ pc = "done" =>
       stats.success_sources + stats.failed_sources
         = Len(SelectSeq2(get_all_sources(test_mode), "http"))
             + Len(SelectSeq2(get_all_sources(test_mode), "browser"))
             + stats.fallback_sources

\* execute has returned after a fallback pass; a task of a later pass
\* failed as well, and some task succeeded
C30_Witness ==
  /\ pc = "done"
  /\ stats.fallback_sources > 0
  /\ stats.success_sources > 0
  /\ stats.failed_sources > stats.fallback_sources

(* -------------------------------------------------------------- claim C29 *)
\* The runs of the test registry, with the scheduling of the event loop:
\* a coroutine that can run is run, and every awaited network call and
\* sleep comes back.  Cancellation from outside may happen at any time
\* but nothing makes it happen.
LiveInit == Init /\ test_mode

\* the steps of the program: every step but the cancellation from outside
Scheduled == Next /\ (pc' = "cancel" => pc = "cancel")

SpecLive == LiveInit /\ [][Next]_vars /\ WF_vars(Scheduled)

\* C29: the collection does not deadlock and comes to an end: every
\* source-task of a pass gets both permits and finishes, and execute
\* returns (or, cancelled from outside, ends cancelled with every task
\* ended).
C29_Terminates ==
  <>(/\ pc \in {"done", "cancelled"}
     /\ \A n \in PassTasks : task[n].st \in Finished)

\* a task that holds a global permit waits for the permit of its domain,
\* which another task holds while it fetches
C29_Witness ==
  \E n, m \in Names :
    /\ task[n].st = "wait_domain"
    /\ task[m].st \in InCollect
    /\ TaskDomain(n) = TaskDomain(m)

====
